---- MODULE Spec2Model ----
(***************************************************************************)
(* A model of blobfs (system/ulib/blobfs/blobfs.cpp): the allocator and    *)
(* superblock accounting, the blob vnode's write and read paths, the       *)
(* writeback queue and journal, and the vnode cache.                       *)
(*                                                                         *)
(* Sizes are scaled down: a block holds kBlobfsBlockSize "bytes", and the  *)
(* content of a buffer is abstracted to whether it hashes to the vnode's   *)
(* digest ("good") or not ("bad").                                         *)
(***************************************************************************)
EXTENDS Integers, Sequences, FiniteSets, TLC

(***************************************************************************)
(* Bounds of the model.                                                    *)
(***************************************************************************)
NumVnodes == 2
MaxBlobSize == 4
MaxVmoids == 2
FvmPoolSlices == 1
WritebackCapacity == 2
MaxFds == 1
MaxClones == 1

(***************************************************************************)
(* Format constants (blobfs/format.h), scaled.                             *)
(***************************************************************************)
kBlobfsBlockSize == 2
kBlobfsInodeSize == 2
kBlobfsBlockBits == 16
kCompressionMinBytesSaved == 2
kInlineMaxExtents == 1
kContainerMaxExtents == 2
kMaxBlobExtents == 4
kSliceSize == 4
kDigestLength == 1
InitDatSlices == 2
InitInoSlices == 1

Vnodes == 1..NumVnodes
\* Digests: a vnode's own digest is its number; kZeroHash is the all-zero hash of
\* a cleared node and kNullDigest the digest of the empty blob.
kZeroHash == 0
kNullDigest == NumVnodes + 1

VARIABLES
    info,        \* Blobfs::info_: the in-memory superblock
    block_map,   \* Allocator: the block bitmap, [size, bits]
    node_map,    \* Allocator: the node table, index -> node
    fvm_free,    \* volume manager: slices still free in the pool
    vn,          \* the VnodeBlob objects, id -> fields
    mount,       \* MountOptions and what InitializeWriteback made of them
    wb_state,    \* the writeback queue: "null" (readonly), "up", "failed"
    ret,         \* the last operation and what it returned
    journal_q,   \* Journal: work accepted and not yet written to the ring
    wb_q,        \* WritebackQueue: work items in FIFO order
    wb_done,     \* writes of wb_q's head that reached the device
    disk,        \* the device: data, journal ring and home metadata
    hash,        \* Blobfs::open_hash_ / closed_hash_ and the objects' refcounts
    thr,         \* the cache's client threads, id -> position and locals
    life         \* Mount, Sync and Shutdown: the position in each and the steps done

fsVars == <<info, block_map, node_map, fvm_free, vn, mount, wb_state, ret>>
qVars == <<journal_q, wb_q, wb_done, disk>>
cacheVars == <<hash, thr>>
lifeVars == <<life>>
vars == <<info, block_map, node_map, fvm_free, vn, mount, wb_state, ret,
          journal_q, wb_q, wb_done, disk, hash, thr, life>>

(***************************************************************************)
(* Arithmetic and sequences.                                               *)
(***************************************************************************)
Min(a, b) == IF a < b THEN a ELSE b
Max(a, b) == IF a > b THEN a ELSE b
CeilDiv(a, b) == (a + b - 1) \div b
Range(s) == {s[i] : i \in DOMAIN s}

RECURSIVE SumLen(_)
SumLen(es) == IF es = <<>> THEN 0 ELSE es[1][2] + SumLen(Tail(es))

ExtentBlocks(e) == e[1]..(e[1] + e[2] - 1)
ExtentsBlocks(es) == UNION {ExtentBlocks(es[i]) : i \in DOMAIN es}

(***************************************************************************)
(* Merkle tree geometry (digest/merkle-tree): the tree of a blob that fits *)
(* in one node is empty; otherwise each level holds one digest per node    *)
(* of the level below, rounded up to whole nodes, up to a single node.     *)
(***************************************************************************)
RECURSIVE TreeLevels(_)
TreeLevels(len) ==
    IF len <= kBlobfsBlockSize THEN 0
    ELSE LET next == CeilDiv(CeilDiv(len, kBlobfsBlockSize) * kDigestLength,
                             kBlobfsBlockSize) * kBlobfsBlockSize
         IN  next + TreeLevels(next)

GetTreeLength(data_size) == TreeLevels(data_size)
MerkleTreeBlocks(blob_size) == CeilDiv(GetTreeLength(blob_size), kBlobfsBlockSize)
BlobDataBlocks(blob_size) == CeilDiv(blob_size, kBlobfsBlockSize)

kBlocksPerSlice == kSliceSize \div kBlobfsBlockSize
kInodesPerSlice == kSliceSize \div kBlobfsInodeSize
kBlobfsInodesPerBlock == kBlobfsBlockSize \div kBlobfsInodeSize
MaxInodes == (InitInoSlices + FvmPoolSlices) * kInodesPerSlice
MaxBlocks == (InitDatSlices + FvmPoolSlices) * kBlocksPerSlice

(***************************************************************************)
(* Records.                                                                *)
(***************************************************************************)
ZeroNode ==
    [alloc |-> FALSE, container |-> FALSE, next |-> 0, extents |-> <<>>,
     blob_size |-> 0, block_count |-> 0, digest |-> kZeroHash,
     compressed |-> FALSE]

\* VnodeBlob::VnodeBlob(Blobfs*, const Digest&): flags_ = kBlobStateEmpty.
NewVnode(d) ==
    [state |-> "Empty", digest |-> d,
     blob_size |-> 0, block_count |-> 0, compressed |-> FALSE, map_index |-> 0,
     write_info |-> FALSE, extents |-> <<>>, node_indices |-> <<>>,
     bytes_written |-> 0, compressing |-> FALSE, csize |-> 0,
     mapping |-> "none", buf |-> "none", verified |-> FALSE, vmoids |-> 0,
     readable_event |-> "none", deletable |-> FALSE, fd_count |-> 1,
     clones |-> 0, clone_ref |-> FALSE, clone_watcher |-> "idle", cached |-> "open",
     ondisk |-> "none"]

\* Blobfs::AttachVmo and DetachVmo for a buffer of a vnode: vmoids counts the
\* ids the block device holds for the vnode, up to MaxVmoids.
AttachVmo(me) == [me EXCEPT !.vmoids = IF @ < MaxVmoids THEN @ + 1 ELSE @]
DetachVmo(me) == [me EXCEPT !.vmoids = IF @ > 0 THEN @ - 1 ELSE @]

\* A slot that holds no vnode object.
NoVnode(v) == [NewVnode(v) EXCEPT !.state = "Purged", !.fd_count = 0, !.cached = "none"]
Gone(me) == me.cached = "none" /\ me.fd_count = 0 /\ ~me.clone_ref

NoRet == [op |-> "none", v |-> 0, status |-> "OK", actual |-> 0, reset |-> "none",
          at |-> 0, log |-> <<>>]
Return(op, v, status, actual, reset, at, log) ==
    [op |-> op, v |-> v, status |-> status, actual |-> actual, reset |-> reset,
     at |-> at, log |-> log]

(***************************************************************************)
(* The state the operations work on, as one record; an action reads it     *)
(* with Cur and stores the operation's result with Store.                  *)
(***************************************************************************)
Cur ==
    [info |-> info, block_map |-> block_map, node_map |-> node_map,
     fvm_free |-> fvm_free, vn |-> vn, mount |-> mount, wb_state |-> wb_state,
     journal_q |-> journal_q, wb_q |-> wb_q, status |-> "OK",
     wb |-> [v |-> 0, op |-> "none", writes |-> <<>>, cb |-> 0], has_wb |-> FALSE,
     actual |-> 0, reset |-> "none", at |-> 0, log |-> <<>>]

Store(s) ==
    /\ info' = s.info
    /\ block_map' = s.block_map
    /\ node_map' = s.node_map
    /\ fvm_free' = s.fvm_free
    /\ vn' = s.vn
    /\ journal_q' = s.journal_q
    /\ wb_q' = s.wb_q
    /\ wb_state' = s.wb_state
    /\ UNCHANGED mount

WithStatus(s, st) == [s EXCEPT !.status = st]

(***************************************************************************)
(* Work items.  A write names the location it copies to the device; the    *)
(* queue that accepts the work buffers the content the location has then.  *)
(***************************************************************************)
\* cb names the closure given to SetSyncCallback, 0 when there is none.
NewWork(v, op) == [v |-> v, op |-> op, writes |-> <<>>, cb |-> 0]
SetSyncCallback(wb, closure) == [wb EXCEPT !.cb = closure]
WorkEnqueue(wb, w) == [wb EXCEPT !.writes = Append(@, w)]
InfoWrite == [t |-> "info", idx |-> 0, len |-> 1]
NodeWrite(i) == [t |-> "node", idx |-> i, len |-> 1]
BitmapWrite(start, n) == [t |-> "bitmap", idx |-> start, len |-> n]
DataRun(vmo, dev, n) == [t |-> "data", vmo |-> vmo, idx |-> dev, len |-> n]

RECURSIVE WorkBlocks(_)
WorkBlocks(ws) == IF ws = <<>> THEN 0 ELSE ws[1].len + WorkBlocks(Tail(ws))

\* What the locations named by a work item hold when a queue copies the work
\* into its buffer; a data write carries the content of its blob (tag).
WorkSnapshot(s) == [info |-> s.info, bits |-> s.block_map.bits, nodes |-> s.node_map]
Buffered(s, wb, kind) ==
    [v |-> wb.v, op |-> wb.op, kind |-> kind, writes |-> wb.writes, cb |-> wb.cb,
     snap |-> WorkSnapshot(s),
     tag |-> IF wb.v \in DOMAIN s.vn THEN s.vn[wb.v].digest ELSE kZeroHash]

\* Blobfs::CreateWork
CreateWork(s) == IF s.wb_state = "null" THEN "BadState" ELSE "OK"

\* Journal::Enqueue and WritebackQueue::Enqueue: a queue that has failed
\* refuses the work and resets it.
JournalEnqueue(s, wb) ==
    IF s.wb_state = "failed" THEN [s EXCEPT !.status = "BadState", !.reset = "BadState"]
    ELSE WithStatus([s EXCEPT !.journal_q = Append(@, Buffered(s, wb, "journal"))], "OK")

WritebackEnqueue(s, wb, kind) ==
    IF s.wb_state = "failed" THEN [s EXCEPT !.status = "BadState", !.reset = "BadState"]
    ELSE WithStatus([s EXCEPT !.wb_q = Append(@, Buffered(s, wb, kind))], "OK")

\* EnqueueWork that never uses the journal.
EnqueueWorkNoJournal(s0, wb, type) ==
    LET s == [s0 EXCEPT !.log = Append(@, <<type, wb.op>>)]
    IN  IF s.wb_state # "null"
        THEN WritebackEnqueue(s, wb, IF type = "kJournal" THEN "journal" ELSE "data")
        ELSE [s EXCEPT !.status = "BadState", !.reset = "BadState"]

\* EnqueueWork that lets metadata work overtake what the writeback queue holds.
EnqueueWorkOvertaking(s0, wb, type) ==
    LET s == [s0 EXCEPT !.log = Append(@, <<type, wb.op>>)]
    IN  IF s.wb_state = "null" THEN [s EXCEPT !.status = "BadState", !.reset = "BadState"]
        ELSE IF type = "kJournal"
        THEN WithStatus([s EXCEPT !.wb_q = <<Buffered(s, wb, "journal")>> \o @], "OK")
        ELSE WritebackEnqueue(s, wb, "data")

\* EnqueueWork that sends every type of work to the journal when there is one.
EnqueueWorkAllToJournal(s0, wb, type) ==
    LET s == [s0 EXCEPT !.log = Append(@, <<type, wb.op>>)]
    IN  IF s.mount.journal
        THEN JournalEnqueue(s, wb)
        ELSE IF s.wb_state # "null"
             THEN WritebackEnqueue(s, wb, IF type = "kJournal" THEN "journal" ELSE "data")
             ELSE [s EXCEPT !.status = "BadState", !.reset = "BadState"]

\* Blobfs::EnqueueWork; the calls of one operation are logged in their order.
EnqueueWork(s0, wb, type) ==
    LET s == [s0 EXCEPT !.log = Append(@, <<type, wb.op>>)]
    IN  IF type = "kJournal" /\ s.mount.journal
        THEN JournalEnqueue(s, wb)
        ELSE IF s.wb_state # "null"
             THEN WritebackEnqueue(s, wb, IF type = "kJournal" THEN "journal" ELSE "data")
             ELSE [s EXCEPT !.status = "BadState", !.reset = "BadState"]

(***************************************************************************)
(* Superblock accounting and the allocator's maps.                         *)
(***************************************************************************)
\* Blobfs::WriteInfo, WriteBitmap, WriteNode
WriteInfo(wb) == WorkEnqueue(wb, InfoWrite)
WriteBitmap(wb, nblocks, start_block) ==
    WorkEnqueue(wb, BitmapWrite(start_block \div kBlobfsBlockBits,
                    CeilDiv(start_block + nblocks, kBlobfsBlockBits)
                        - (start_block \div kBlobfsBlockBits)))
WriteNode(wb, map_index) ==
    WorkEnqueue(wb, NodeWrite((map_index * kBlobfsInodeSize) \div kBlobfsBlockSize))

ReservedBlocks(vns) == UNION {ExtentsBlocks(vns[v].extents) : v \in Vnodes}
ReservedNodes(vns) == UNION {Range(vns[v].node_indices) : v \in Vnodes}

\* AddBlocks that asks for the whole slices in nblocks only.
AddBlocksFloor(s, nblocks, fail) ==
    IF ~s.info.flags_fvm THEN WithStatus(s, "NoSpace")
    ELSE
    LET length == nblocks \div kBlocksPerSlice
        blocks == (s.info.dat_slices + length) * kBlocksPerSlice
        abmblks == CeilDiv(blocks, kBlobfsBlockBits)
        abmblks_old == CeilDiv(s.info.data_block_count, kBlobfsBlockBits)
    IN  IF abmblks > kBlocksPerSlice THEN WithStatus(s, "NoSpace")
        ELSE IF s.fvm_free < length THEN WithStatus(s, "NoSpace")
        ELSE
        LET s1 == [s EXCEPT !.fvm_free = @ - length]
        IN  IF fail = "grow" THEN WithStatus(s1, "NoSpace")
            ELSE
            LET s2 == [s1 EXCEPT !.block_map.size = blocks]
            IN  IF CreateWork(s2) # "OK" THEN WithStatus(s2, CreateWork(s2))
                ELSE
                LET wb0 == NewWork(0, "grow")
                    wb1 == IF abmblks > abmblks_old
                           THEN WorkEnqueue(wb0, BitmapWrite(abmblks_old,
                                                             abmblks - abmblks_old))
                           ELSE wb0
                    s3 == [s2 EXCEPT !.info.vslice_count = @ + length,
                                     !.info.dat_slices = @ + length,
                                     !.info.data_block_count = blocks]
                IN  EnqueueWork(s3, WriteInfo(wb1), "kJournal")

\* Blobfs::AddBlocks
AddBlocks(s, nblocks, fail) ==
    IF ~s.info.flags_fvm THEN WithStatus(s, "NoSpace")
    ELSE
    LET length == CeilDiv(nblocks, kBlocksPerSlice)
        blocks == (s.info.dat_slices + length) * kBlocksPerSlice
        abmblks == CeilDiv(blocks, kBlobfsBlockBits)
        abmblks_old == CeilDiv(s.info.data_block_count, kBlobfsBlockBits)
    IN  IF abmblks > kBlocksPerSlice THEN WithStatus(s, "NoSpace")
        ELSE IF s.fvm_free < length THEN WithStatus(s, "NoSpace")
        ELSE
        LET s1 == [s EXCEPT !.fvm_free = @ - length]
        IN  IF fail = "grow" THEN WithStatus(s1, "NoSpace")
            ELSE
            LET s2 == [s1 EXCEPT !.block_map.size = blocks]
            IN  IF CreateWork(s2) # "OK" THEN WithStatus(s2, CreateWork(s2))
                ELSE
                LET wb0 == NewWork(0, "grow")
                    wb1 == IF abmblks > abmblks_old
                           THEN WorkEnqueue(wb0, BitmapWrite(abmblks_old,
                                                             abmblks - abmblks_old))
                           ELSE wb0
                    s3 == [s2 EXCEPT !.info.vslice_count = @ + length,
                                     !.info.dat_slices = @ + length,
                                     !.info.data_block_count = blocks]
                IN  EnqueueWork(s3, WriteInfo(wb1), "kJournal")

\* Blobfs::AddInodes
AddInodes(s, fail) ==
    IF ~s.info.flags_fvm THEN WithStatus(s, "NoSpace")
    ELSE IF s.fvm_free < 1 THEN WithStatus(s, "NoSpace")
    ELSE
    LET s1 == [s EXCEPT !.fvm_free = @ - 1]
        inodes == (s.info.ino_slices + 1) * kInodesPerSlice
        inoblks == CeilDiv(inodes, kBlobfsInodesPerBlock)
        inoblks_old == CeilDiv(s.info.inode_count, kBlobfsInodesPerBlock)
    IN  IF fail = "grow" THEN WithStatus(s1, "NoSpace")
        ELSE
        LET s2 == [s1 EXCEPT !.info.vslice_count = @ + 1,
                             !.info.ino_slices = @ + 1,
                             !.info.inode_count = inodes,
                             !.node_map = [i \in DOMAIN @ |->
                                 IF /\ i >= inoblks_old * kBlobfsInodesPerBlock
                                    /\ i < inoblks * kBlobfsInodesPerBlock
                                 THEN ZeroNode ELSE @[i]]]
        IN  IF CreateWork(s2) # "OK" THEN WithStatus(s2, CreateWork(s2))
            ELSE EnqueueWork(s2,
                     WorkEnqueue(WriteInfo(NewWork(0, "grow")),
                                 [t |-> "node", idx |-> inoblks_old,
                                  len |-> inoblks - inoblks_old]),
                     "kJournal")

(***************************************************************************)
(* Allocator (blobfs/allocator): reservation.  A block or node is free     *)
(* when it is neither allocated nor reserved by a live reservation.        *)
(***************************************************************************)
RECURSIVE FindBlocks(_, _, _, _, _)
FindBlocks(b, size, n, busy, acc) ==
    IF n = 0 \/ b >= size THEN acc
    ELSE IF b \in busy THEN FindBlocks(b + 1, size, n, busy, acc)
    ELSE IF acc # <<>> /\ acc[Len(acc)][1] + acc[Len(acc)][2] = b
         THEN FindBlocks(b + 1, size, n - 1, busy,
                         [acc EXCEPT ![Len(acc)] = <<@[1], @[2] + 1>>])
         ELSE FindBlocks(b + 1, size, n - 1, busy, Append(acc, <<b, 1>>))

\* ReserveBlocks that sets the bits of what it reserves in the bitmap.
ReserveBlocksInBitmap(s, num_blocks, fail) ==
    LET busy == s.block_map.bits \cup ReservedBlocks(s.vn)
        first == FindBlocks(0, s.block_map.size, num_blocks, busy, <<>>)
    IN  IF SumLen(first) = num_blocks
        THEN [s |-> WithStatus([s EXCEPT !.block_map.bits = @ \cup ExtentsBlocks(first)],
                               "OK"),
              out |-> first]
        ELSE [s |-> WithStatus(s, "NoSpace"), out |-> <<>>]

\* Allocator::ReserveBlocks: first fit from block 0; when the map is short,
\* one AddBlocks for the blocks still missing, then the scan goes on.
ReserveBlocks(s, num_blocks, fail) ==
    LET busy == s.block_map.bits \cup ReservedBlocks(s.vn)
        first == FindBlocks(0, s.block_map.size, num_blocks, busy, <<>>)
    IN  IF SumLen(first) = num_blocks
        THEN [s |-> WithStatus(s, "OK"), out |-> first]
        ELSE
        LET g == AddBlocks(s, num_blocks - SumLen(first), fail)
            more == FindBlocks(0, g.block_map.size, num_blocks - SumLen(first),
                               busy \cup ExtentsBlocks(first), <<>>)
        IN  IF g.status = "OK" /\ SumLen(first) + SumLen(more) = num_blocks
            THEN [s |-> WithStatus(g, "OK"), out |-> first \o more]
            ELSE [s |-> WithStatus(g, "NoSpace"), out |-> <<>>]

FreeNodes(s, taken) ==
    {i \in 0..(s.info.inode_count - 1) :
        ~s.node_map[i].alloc /\ i \notin ReservedNodes(s.vn) /\ i \notin taken}

\* Allocator::ReserveNodes: the lowest free nodes; when none is free, AddInodes.
RECURSIVE ReserveNodes(_, _, _, _)
ReserveNodes(s, num_nodes, fail, acc) ==
    IF num_nodes = 0 THEN [s |-> WithStatus(s, "OK"), out |-> acc]
    ELSE IF FreeNodes(s, Range(acc)) # {}
    THEN LET i == CHOOSE i \in FreeNodes(s, Range(acc)) :
                      \A j \in FreeNodes(s, Range(acc)) : i <= j
         IN  ReserveNodes(s, num_nodes - 1, fail, Append(acc, i))
    ELSE LET g == AddInodes(s, fail)
         IN  IF g.status = "OK" /\ FreeNodes(g, Range(acc)) # {}
             THEN ReserveNodes(g, num_nodes, fail, acc)
             ELSE [s |-> WithStatus(g, "NoSpace"), out |-> <<>>]

\* NodeCountForExtents that never asks for an extent container.
NodeCountInline(extent_count) == 1

\* NodePopulator::NodeCountForExtents
NodeCountForExtents(extent_count) ==
    1 + CeilDiv(Max(extent_count, kInlineMaxExtents) - kInlineMaxExtents,
                kContainerMaxExtents)

\* Allocator::MarkBlocksAllocated, MarkInodeAllocated, MarkContainerNodeAllocated,
\* FreeBlocks, FreeNode, CheckBlocksAllocated
MarkBlocksAllocated(s, extent) ==
    [s EXCEPT !.block_map.bits = @ \cup ExtentBlocks(extent)]
MarkInodeAllocated(s, i) ==
    [s EXCEPT !.node_map[i].alloc = TRUE, !.node_map[i].container = FALSE,
              !.node_map[i].next = 0]
MarkContainerNodeAllocated(s, i, previous) ==
    [s EXCEPT !.node_map[previous].next = i,
              !.node_map[i] = [ZeroNode EXCEPT !.alloc = TRUE, !.container = TRUE]]
AllocatorFreeBlocks(s, extent) ==
    [s EXCEPT !.block_map.bits = @ \ ExtentBlocks(extent)]
AllocatorFreeNode(s, i) ==
    [s EXCEPT !.node_map[i].alloc = FALSE, !.node_map[i].container = FALSE]
CheckBlocksAllocated(s, start, end) == (start..(end - 1)) \subseteq s.block_map.bits

\* PersistBlocks that forgets the superblock's count.
PersistBlocksNoCount(s, extent) ==
    LET s1 == MarkBlocksAllocated(s, extent)
    IN  [s1 EXCEPT !.wb = WriteInfo(WriteBitmap(@, extent[2], extent[1]))]

\* Blobfs::PersistBlocks
PersistBlocks(s, extent) ==
    LET s1 == MarkBlocksAllocated(s, extent)
    IN  [s1 EXCEPT !.info.alloc_block_count = @ + extent[2],
                   !.wb = WriteInfo(WriteBitmap(@, extent[2], extent[1]))]

\* Blobfs::PersistNode
PersistNode(s, node_index) ==
    [s EXCEPT !.info.alloc_inode_count = @ + 1,
              !.wb = WriteInfo(WriteNode(@, node_index))]

\* Blobfs::FreeExtent
FreeExtent(s, extent) ==
    IF CheckBlocksAllocated(s, extent[1], extent[1] + extent[2])
    THEN LET s1 == AllocatorFreeBlocks(s, extent)
         IN  [s1 EXCEPT !.info.alloc_block_count = @ - extent[2],
                        !.wb = WriteInfo(WriteBitmap(@, extent[2], extent[1]))]
    ELSE s

\* Blobfs::FreeNode
FreeNode(s, node_index) ==
    LET s1 == AllocatorFreeNode(s, node_index)
    IN  [s1 EXCEPT !.info.alloc_inode_count = @ - 1,
                   !.wb = WriteNode(@, node_index)]

RECURSIVE FreeExtents(_, _)
FreeExtents(s, es) ==
    IF es = <<>> THEN s ELSE FreeExtents(FreeExtent(s, es[1]), Tail(es))

\* AllocatedExtentIterator driven by Blobfs::FreeInode: the extents of the node,
\* then the next container of the chain, which is freed when it is first seen.
RECURSIVE FreeChain(_, _, _)
FreeChain(s, node_index, fuel) ==
    LET n == s.node_map[node_index]
        s1 == FreeExtents(s, n.extents)
    IN  IF n.next = 0 \/ fuel = 0 THEN s1
        ELSE FreeChain(FreeNode(s1, n.next), n.next, fuel - 1)

\* Blobfs::FreeInode
FreeInode(s, node_index) ==
    IF s.node_map[node_index].alloc
    THEN LET s1 == FreeChain(FreeNode(s, node_index), node_index, MaxInodes)
         IN  [s1 EXCEPT !.wb = WriteInfo(@)]
    ELSE s

(***************************************************************************)
(* NodePopulator::Walk with the callbacks VnodeBlob::WriteMetadata gives   *)
(* it: on_node persists the node, on_extent persists the extent's blocks   *)
(* and splits the last extent when fewer blocks remain than it holds.      *)
(***************************************************************************)
RECURSIVE Walk(_, _, _, _, _, _, _)
Walk(s, extents, nodes, e, node_index, node_count, st) ==
    \* st = <<remaining_blocks, local_index>>
    IF e > Len(extents) THEN s
    ELSE
    LET next_container == (e - 1 = kInlineMaxExtents)
                          \/ (e - 1 > kInlineMaxExtents /\ st[2] = kContainerMaxExtents)
        next == nodes[node_count + 1]
        s1 == IF next_container
              THEN PersistNode(MarkContainerNodeAllocated(s, next, node_index), next)
              ELSE s
        cur == IF next_container THEN next ELSE node_index
        cnt == IF next_container THEN node_count + 1 ELSE node_count
        local == IF next_container THEN 0 ELSE st[2]
        whole == st[1] >= extents[e][2]
        used == IF whole THEN extents[e] ELSE <<extents[e][1], st[1]>>
        remaining == IF whole THEN st[1] - extents[e][2] ELSE 0
        s2 == PersistBlocks(s1, used)
        s3 == [s2 EXCEPT !.node_map[cur].extents = Append(@, used)]
    IN  IF remaining = 0 THEN s3
        ELSE Walk(s3, extents, nodes, e + 1, cur, cnt, <<remaining, local + 1>>)

\* VnodeBlob::WriteMetadata
WriteMetadata(s, v, fail) ==
    IF CreateWork(s) # "OK" THEN WithStatus(s, CreateWork(s))
    ELSE
    LET s1 == [s EXCEPT !.wb = NewWork(v, "commit"), !.vn[v].state = "Readable"]
    IN  IF s.vn[v].readable_event # "none" /\ fail = "signal"
        THEN WithStatus([s1 EXCEPT !.vn[v].state = "Error"], "SignalError")
        ELSE
        LET s2 == IF s.vn[v].readable_event # "none"
                  THEN [s1 EXCEPT !.vn[v].readable_event = "signalled"] ELSE s1
            me == s2.vn[v]
            inode == [ZeroNode EXCEPT !.blob_size = me.blob_size,
                                      !.block_count = me.block_count,
                                      !.digest = me.digest,
                                      !.compressed = me.compressed]
            s3 == IF me.block_count > 0
                  THEN LET a == [s2 EXCEPT !.node_map[me.map_index] = inode]
                           b == PersistNode(MarkInodeAllocated(a, me.node_indices[1]),
                                            me.node_indices[1])
                           c == Walk(b, me.extents, me.node_indices, 1,
                                     me.node_indices[1], 1, <<me.block_count, 0>>)
                       IN  [c EXCEPT !.node_map[me.map_index].compressed = me.compressed,
                                     !.vn[v].extents = <<>>,
                                     !.vn[v].node_indices = <<>>]
                  ELSE PersistNode(MarkInodeAllocated(s2, me.node_indices[1]),
                                   me.node_indices[1])
            s4 == EnqueueWork(s3, s3.wb, "kJournal")
        IN  IF s4.status # "OK" THEN s4
            ELSE [s4 EXCEPT !.vn[v].write_info = FALSE, !.vn[v].extents = <<>>,
                            !.vn[v].node_indices = <<>>, !.vn[v].bytes_written = 0,
                            !.vn[v].compressing = FALSE, !.vn[v].csize = 0]

\* MerkleTree::Verify of the vnode's buffer against digest_: the empty blob
\* verifies against the empty digest alone.
VerifyOk(me) ==
    IF me.blob_size = 0 THEN me.digest = kNullDigest
    ELSE me.buf = "good" /\ me.digest # kNullDigest

\* VnodeBlob::SpaceAllocate
SpaceAllocate(s, v, size_data, fail) ==
    IF s.vn[v].state # "Empty" THEN WithStatus(s, "BadState")
    ELSE
    LET block_count == MerkleTreeBlocks(size_data) + BlobDataBlocks(size_data)
        s0 == [s EXCEPT !.vn[v].blob_size = size_data,
                        !.vn[v].block_count = block_count]
    IN  IF size_data = 0
        THEN
        LET rn == ReserveNodes(s0, 1, fail, <<>>)
        IN  IF rn.s.status # "OK" THEN rn.s
            ELSE
            LET s1 == [rn.s EXCEPT !.vn[v].map_index = rn.out[1],
                                   !.vn[v].write_info = TRUE,
                                   !.vn[v].node_indices = rn.out]
            IN  IF ~VerifyOk(s1.vn[v]) THEN WithStatus(s1, "IntegrityError")
                ELSE WriteMetadata([s1 EXCEPT !.vn[v].state = "DataWrite"], v, fail)
        ELSE
        LET rb == ReserveBlocks(s0, block_count, fail)
        IN  IF rb.s.status # "OK" THEN rb.s
            ELSE IF Len(rb.out) > kMaxBlobExtents THEN WithStatus(rb.s, "BadState")
            ELSE
            LET rn == ReserveNodes(rb.s, NodeCountForExtents(Len(rb.out)), fail, <<>>)
            IN  IF rn.s.status # "OK" THEN rn.s
                ELSE IF size_data >= kCompressionMinBytesSaved /\ fail = "compressor"
                THEN WithStatus(rn.s, "NoMemory")
                ELSE IF fail = "map" THEN WithStatus(rn.s, "NoMemory")
                ELSE IF fail = "attach" THEN WithStatus(rn.s, "Io")
                ELSE WithStatus(
                       [rn.s EXCEPT !.vn[v].map_index = rn.out[1],
                                    !.vn[v].mapping = "write",
                                    !.vn[v].vmoids = AttachVmo(rn.s.vn[v]).vmoids,
                                    !.vn[v].buf = "good",
                                    !.vn[v].extents = rb.out,
                                    !.vn[v].node_indices = rn.out,
                                    !.vn[v].write_info = TRUE,
                                    !.vn[v].bytes_written = 0,
                                    !.vn[v].compressing =
                                        (size_data >= kCompressionMinBytesSaved),
                                    !.vn[v].csize = 0,
                                    !.vn[v].state = "DataWrite"], "OK")

\* The runs StreamBlocks hands out for n blocks of a blob from block `skip` on:
\* a run ends where its extent ends.
RECURSIVE Runs(_, _, _)
Runs(extents, skip, n) ==
    IF n = 0 \/ extents = <<>> THEN <<>>
    ELSE IF skip >= extents[1][2] THEN Runs(Tail(extents), skip - extents[1][2], n)
    ELSE LET take == Min(extents[1][2] - skip, n)
         IN  <<<<extents[1][1] + skip, take>>>> \o Runs(Tail(extents), 0, n - take)

kMaxChunkBlocks(s) == (3 * s.mount.capacity) \div 4

\* EnqueuePaginated: the loop, entered with delta_blocks = min(nblocks, max).
\* A chunk of no blocks leaves nblocks as it was: while CreateWork and
\* EnqueueWork succeed the loop goes round without end ("Hang").
RECURSIVE EnqueuePaginated(_, _, _, _, _)
EnqueuePaginated(s, v, relative_block, absolute_block, nblocks) ==
    IF nblocks = 0 THEN WithStatus(s, "OK")
    ELSE
    LET delta_blocks == Min(nblocks, kMaxChunkBlocks(s))
        s1 == [s EXCEPT !.wb = WorkEnqueue(@, DataRun(relative_block, absolute_block,
                                                      delta_blocks))]
    IN  IF nblocks - delta_blocks = 0 THEN WithStatus(s1, "OK")
        ELSE IF CreateWork(s1) # "OK" THEN WithStatus(s1, CreateWork(s1))
        ELSE
        LET s2 == [EnqueueWork(s1, s1.wb, "kData") EXCEPT !.has_wb = FALSE]
        IN  IF s2.status # "OK" THEN s2
            ELSE IF delta_blocks = 0 THEN WithStatus(s2, "Hang")
            ELSE EnqueuePaginated([s2 EXCEPT !.wb = NewWork(v, "data"), !.has_wb = TRUE],
                                  v, relative_block + delta_blocks,
                                  absolute_block + delta_blocks,
                                  nblocks - delta_blocks)

\* StreamBlocks with EnqueuePaginated as its callback.
\* vmo_offset is where the run starts in the buffer that is written out.
RECURSIVE StreamBlocks(_, _, _, _)
StreamBlocks(s, v, runs, vmo_offset) ==
    IF runs = <<>> THEN WithStatus(s, "OK")
    ELSE LET s1 == EnqueuePaginated(s, v, vmo_offset, runs[1][1], runs[1][2])
         IN  IF s1.status # "OK" THEN s1
             ELSE StreamBlocks(s1, v, Tail(runs), vmo_offset + runs[1][2])

\* ConsiderCompressionAbort that never gives compression up.
ConsiderCompressionKeep(me) == me

\* ConsiderCompressionAbort that gives up only once nothing at all is saved.
ConsiderCompressionAbortAtSize(me) ==
    IF me.blob_size < me.csize
    THEN [me EXCEPT !.compressing = FALSE, !.csize = 0]
    ELSE me

\* VnodeBlob::ConsiderCompressionAbort
ConsiderCompressionAbort(me) ==
    IF me.blob_size - kCompressionMinBytesSaved < me.csize
    THEN [me EXCEPT !.compressing = FALSE, !.csize = 0]
    ELSE me

\* set_error that resets the work but leaves the vnode's state alone.
SetErrorKeepState(s, v) ==
    [s EXCEPT !.reset = IF s.has_wb THEN "BadState" ELSE @,
              !.has_wb = FALSE]

\* set_error of VnodeBlob::WriteInternal: what a return after line 611 runs.
SetError(s, v) ==
    [s EXCEPT !.vn[v].state = "Error",
              !.reset = IF s.has_wb THEN "BadState" ELSE @,
              !.has_wb = FALSE]

\* VnodeBlob::WriteInternal from line 602 on: the write that completes the blob.
\* The data work is enqueued (line 706) before WriteMetadata (line 712).
WriteFinal(s, v, csz, fail) ==
    IF CreateWork(s) # "OK" THEN WithStatus(s, CreateWork(s))
    ELSE
    LET s0 == [s EXCEPT !.wb = NewWork(v, "data"), !.has_wb = TRUE]
    IN  IF s0.vn[v].compressing /\ fail = "compress_end"
        THEN SetError(WithStatus(s0, "Io"), v)
        ELSE
        LET s1 == IF s0.vn[v].compressing
                  THEN [s0 EXCEPT !.vn[v] =
                           ConsiderCompressionAbort([@ EXCEPT !.csize = Max(csz, 1)])]
                  ELSE s0
            me == s1.vn[v]
            merkle_blocks == MerkleTreeBlocks(me.blob_size)
            merkle_size == GetTreeLength(me.blob_size)
        IN  IF merkle_size > 0 /\ fail = "merkle_create"
            THEN SetError(WithStatus(s1, "Io"), v)
            ELSE IF ~VerifyOk(me)
            THEN SetError(WithStatus(s1, "IntegrityError"), v)
            ELSE
            LET s2 == StreamBlocks(s1, v, Runs(me.extents, 0, merkle_blocks), 0)
            IN  IF s2.status # "OK" THEN SetError(s2, v)
                ELSE
                LET blocks == IF me.compressing
                              THEN CeilDiv(me.csize, kBlobfsBlockSize)
                              ELSE CeilDiv(me.blob_size, kBlobfsBlockSize)
                    s3 == StreamBlocks(s2, v, Runs(me.extents, merkle_blocks, blocks),
                                       IF me.compressing THEN 0 ELSE merkle_blocks)
                IN  IF s3.status # "OK" THEN SetError(s3, v)
                    ELSE
                    LET s4 == IF me.compressing
                              THEN [s3 EXCEPT !.vn[v].block_count = blocks + merkle_blocks,
                                              !.vn[v].compressed = TRUE]
                              ELSE s3
                        s5 == [EnqueueWork(s4, s4.wb, "kData") EXCEPT !.has_wb = FALSE]
                    IN  IF s5.status # "OK" THEN SetError(s5, v)
                        ELSE
                        LET s6 == WriteMetadata(
                                      IF fail = "queue" /\ s5.wb_state = "up"
                                      THEN [s5 EXCEPT !.wb_state = "failed"] ELSE s5,
                                      v, fail)
                        IN  IF s6.status # "OK" THEN SetError(s6, v)
                            ELSE [s6 EXCEPT !.vn[v].ondisk = "good"]

\* WriteInternal that takes all len bytes, whatever is left of blob_size.
WriteInternalNoClamp(s, v, len, good, csz, fail) ==
    IF len = 0 THEN WithStatus(s, "OK")
    ELSE IF s.vn[v].state = "DataWrite"
    THEN
    LET me == s.vn[v]
        s1 == [s EXCEPT !.actual = len,
                        !.vn[v].bytes_written = @ + len,
                        !.vn[v].buf = IF good /\ @ = "good" THEN "good" ELSE "bad"]
    IN  IF fail = "vmo_write" THEN WithStatus(s, "Io")
        ELSE IF s1.vn[v].bytes_written < me.blob_size THEN WithStatus(s1, "OK")
        ELSE WriteFinal(s1, v, csz, fail)
    ELSE WithStatus(s, "BadState")

\* VnodeBlob::WriteInternal
WriteInternal(s, v, len, good, csz, fail) ==
    IF len = 0 THEN WithStatus(s, "OK")
    ELSE IF s.vn[v].state = "DataWrite"
    THEN
    LET me == s.vn[v]
        to_write == Min(len, me.blob_size - me.bytes_written)
    IN  IF fail = "vmo_write" THEN WithStatus(s, "Io")
        ELSE
        LET s1 == [s EXCEPT !.actual = to_write,
                            !.vn[v].bytes_written = @ + to_write,
                            !.vn[v].buf = IF good /\ @ = "good" THEN "good" ELSE "bad"]
        IN  IF me.compressing /\ fail = "compress_update" THEN WithStatus(s1, "Io")
            ELSE
            LET s2 == IF me.compressing
                      THEN [s1 EXCEPT !.vn[v] =
                               ConsiderCompressionAbort([@ EXCEPT !.csize = Max(csz, @)])]
                      ELSE s1
            IN  IF s2.vn[v].bytes_written < me.blob_size THEN WithStatus(s2, "OK")
                ELSE WriteFinal(s2, v, Max(csz, s2.vn[v].csize), fail)
    ELSE WithStatus(s, "BadState")

(***************************************************************************)
(* Readback.                                                               *)
(***************************************************************************)
\* VnodeBlob::BlobCloseHandles
BlobCloseHandles(me) ==
    [me EXCEPT !.mapping = "none", !.buf = "none", !.verified = FALSE,
               !.readable_event = "none"]

\* InitVmos that does not verify what it loaded.
InitVmosNoVerify(s, v, fail) ==
    LET me == s.vn[v]
        closed == [s EXCEPT !.vn[v] = BlobCloseHandles(@)]
    IN  IF me.mapping # "none" THEN WithStatus(s, "OK")
        ELSE IF BlobDataBlocks(me.blob_size) + MerkleTreeBlocks(me.blob_size) = 0
        THEN WithStatus(s, "OK")
        ELSE IF fail \in {"map", "attach", "transact"} THEN WithStatus(closed, "Io")
        ELSE WithStatus([s EXCEPT !.vn[v] =
                 [me EXCEPT !.mapping = "read", !.verified = TRUE,
                            !.buf = IF fail = "corrupt" THEN "bad" ELSE me.ondisk]], "OK")

\* VnodeBlob::InitVmos with InitCompressed / InitUncompressed and Verify: the
\* buffer is filled with what the device holds for the blob, then verified.
\* InitCompressed attaches its scratch buffer and detaches it on every exit
\* that follows (lines 256-264); the cleanup of InitVmos is BlobCloseHandles.
InitVmos(s, v, fail) ==
    LET me == s.vn[v]
        closed == [s EXCEPT !.vn[v] = BlobCloseHandles(@)]
        attached == AttachVmo(me)
        scratch == IF me.compressed THEN DetachVmo(AttachVmo(attached)) ELSE attached
    IN  IF me.mapping # "none" THEN WithStatus(s, "OK")
        ELSE IF BlobDataBlocks(me.blob_size) + MerkleTreeBlocks(me.blob_size) = 0
        THEN WithStatus(s, "OK")
        ELSE IF fail = "map" THEN WithStatus(closed, "NoMemory")
        ELSE IF fail = "attach" THEN WithStatus(closed, "Io")
        ELSE IF fail = "transact"
        THEN WithStatus([s EXCEPT !.vn[v] = BlobCloseHandles(scratch)], "Io")
        ELSE IF me.compressed /\ fail = "decompress"
        THEN WithStatus([s EXCEPT !.vn[v] = BlobCloseHandles(scratch)], "IntegrityError")
        ELSE
        LET loaded == [scratch EXCEPT !.mapping = "read",
                                      !.buf = IF fail = "corrupt" THEN "bad" ELSE me.ondisk]
        IN  IF ~VerifyOk(loaded)
            THEN WithStatus([s EXCEPT !.vn[v] = BlobCloseHandles(loaded)], "IntegrityError")
            ELSE WithStatus([s EXCEPT !.vn[v] = [loaded EXCEPT !.verified = TRUE]], "OK")

\* ReadInternal without the check of the vnode's state.
ReadInternalNoStateCheck(s, v, len, off, fail) ==
    IF s.vn[v].blob_size = 0 THEN WithStatus(s, "OK")
    ELSE
    LET s1 == InitVmos(s, v, fail)
    IN  IF s1.status # "OK" THEN s1
        ELSE IF off >= s1.vn[v].blob_size THEN WithStatus(s1, "OK")
        ELSE [s1 EXCEPT !.status = "OK",
                        !.actual = Min(len, s1.vn[v].blob_size - off)]

\* ReadInternal that does not cut len to the end of the blob.
ReadInternalNoClamp(s, v, len, off, fail) ==
    IF s.vn[v].state # "Readable" THEN WithStatus(s, "BadState")
    ELSE IF s.vn[v].blob_size = 0 THEN WithStatus(s, "OK")
    ELSE
    LET s1 == InitVmos(s, v, fail)
    IN  IF s1.status # "OK" THEN s1
        ELSE IF off >= s1.vn[v].blob_size THEN WithStatus(s1, "OK")
        ELSE [s1 EXCEPT !.status = "OK",
                        !.at = MerkleTreeBlocks(s1.vn[v].blob_size) * kBlobfsBlockSize
                                   + off,
                        !.actual = len]

\* VnodeBlob::ReadInternal
ReadInternal(s, v, len, off, fail) ==
    IF s.vn[v].state # "Readable" THEN WithStatus(s, "BadState")
    ELSE IF s.vn[v].blob_size = 0 THEN WithStatus(s, "OK")
    ELSE
    LET s1 == InitVmos(s, v, fail)
    IN  IF s1.status # "OK" THEN s1
        ELSE IF off >= s1.vn[v].blob_size THEN WithStatus(s1, "OK")
        ELSE IF fail = "vmo_read" THEN WithStatus(s1, "Io")
        ELSE [s1 EXCEPT !.status = "OK",
                        !.at = MerkleTreeBlocks(s1.vn[v].blob_size) * kBlobfsBlockSize
                                   + off,
                        !.actual = Min(len, s1.vn[v].blob_size - off)]

\* CloneVmo that clones a blob of size 0.
CloneVmoOfEmpty(s, v, fail) ==
    IF s.vn[v].state # "Readable" THEN WithStatus(s, "BadState")
    ELSE
    LET s1 == InitVmos(s, v, fail)
    IN  IF s1.status # "OK" THEN s1
        ELSE
        LET s2 == [s1 EXCEPT !.status = "OK",
                             !.actual = s1.vn[v].blob_size,
                             !.vn[v].clones = @ + 1]
        IN  IF s2.vn[v].clone_watcher = "idle"
            THEN [s2 EXCEPT !.vn[v].clone_watcher = "armed",
                            !.vn[v].clone_ref = TRUE]
            ELSE s2

\* VnodeBlob::CloneVmo
CloneVmo(s, v, fail) ==
    IF s.vn[v].state # "Readable" THEN WithStatus(s, "BadState")
    ELSE IF s.vn[v].blob_size = 0 THEN WithStatus(s, "BadState")
    ELSE
    LET s1 == InitVmos(s, v, fail)
    IN  IF s1.status # "OK" THEN s1
        ELSE IF fail = "clone" THEN WithStatus(s1, "NoMemory")
        ELSE
        LET s2 == [s1 EXCEPT !.status = "OK",
                             !.actual = s1.vn[v].blob_size,
                             !.vn[v].clones = @ + 1]
        IN  IF s2.vn[v].clone_watcher = "idle"
            THEN [s2 EXCEPT !.vn[v].clone_watcher = "armed",
                            !.vn[v].clone_ref = TRUE]
            ELSE s2

\* VnodeBlob::GetReadableEvent
GetReadableEvent(s, v, fail) ==
    LET me == s.vn[v]
    IN  IF me.readable_event = "none" /\ fail = "event" THEN WithStatus(s, "NoMemory")
        ELSE
        LET s1 == IF me.readable_event = "none"
                  THEN [s EXCEPT !.vn[v].readable_event =
                            IF me.state = "Readable" THEN "signalled" ELSE "created"]
                  ELSE s
        IN  IF fail = "duplicate" THEN WithStatus(s1, "NoMemory")
            ELSE WithStatus(s1, "OK")

(***************************************************************************)
(* The vnode's life in the cache, one client at a time.                    *)
(***************************************************************************)
\* Blobfs::VnodeReleaseHard
VnodeReleaseHard(s, v) == [s EXCEPT !.vn[v].cached = "none"]

\* Blobfs::PurgeBlob
PurgeBlob(s, v) ==
    IF s.vn[v].state \in {"Empty", "DataWrite", "Error"}
    THEN WithStatus(VnodeReleaseHard(s, v), "OK")
    ELSE IF CreateWork(s) # "OK" THEN WithStatus(s, CreateWork(s))
    ELSE
    LET s1 == FreeInode([s EXCEPT !.wb = NewWork(v, "purge")], s.vn[v].map_index)
        s2 == VnodeReleaseHard(s1, v)
    IN  EnqueueWork(s2, s2.wb, "kJournal")

\* VnodeBlob::Purge and TryPurge (blobfs/vnode): a blob with no open handle is
\* purged when it is unlinked or not readable.
Purgeable(me) == me.fd_count = 0 /\ (me.deletable \/ me.state # "Readable")
TryPurge(s, v) ==
    IF Purgeable(s.vn[v])
    THEN [PurgeBlob(s, v) EXCEPT !.vn[v].state = "Purged"]
    ELSE WithStatus(s, "OK")

\* VnodeBlob::QueueUnlink
QueueUnlink(s, v) == TryPurge([s EXCEPT !.vn[v].deletable = TRUE], v)

\* VnodeBlob::TearDown
TearDown(me) ==
    [(IF me.mapping # "none" THEN DetachVmo(me) ELSE me)
        EXCEPT !.mapping = "none", !.buf = "none", !.verified = FALSE]

\* Blobfs::VnodeReleaseSoft with VnodeInsertClosedLocked under EvictImmediately
VnodeReleaseSoft(s, v) ==
    [s EXCEPT !.vn[v] = [TearDown(@) EXCEPT !.cached = "closed"]]

\* VnodeBlob::fbl_recycle: the last reference is gone.  A purged vnode is
\* destroyed, and with it its write info and the reservations that holds.
Recycle(s, v) ==
    LET me == s.vn[v]
    IN  IF me.fd_count > 0 \/ me.clone_ref THEN s
        ELSE IF me.state # "Purged"
        THEN IF me.cached = "open" THEN VnodeReleaseSoft(s, v) ELSE s
        ELSE [s EXCEPT !.vn[v] = NoVnode(v)]

(***************************************************************************)
(* The file system with one client at a time: Spec.                        *)
(***************************************************************************)

MountOptions ==
    {[readonly |-> FALSE, journal |-> TRUE, capacity |-> WritebackCapacity],
     [readonly |-> FALSE, journal |-> FALSE, capacity |-> WritebackCapacity],
     [readonly |-> TRUE, journal |-> TRUE, capacity |-> WritebackCapacity]}

\* A freshly formatted volume (mkfs), mounted.
FormattedInfo(fvm, dat) ==
    [flags_fvm |-> fvm, dat_slices |-> dat, ino_slices |-> InitInoSlices,
     vslice_count |-> dat + InitInoSlices,
     data_block_count |-> dat * kBlocksPerSlice,
     inode_count |-> InitInoSlices * kInodesPerSlice,
     alloc_block_count |-> 0, alloc_inode_count |-> 0]

InitFs(options, fvms, dats) ==
    /\ \E fvm \in fvms, dat \in dats :
          /\ info = FormattedInfo(fvm, dat)
          /\ fvm_free = IF fvm THEN FvmPoolSlices ELSE 0
          /\ block_map = [size |-> dat * kBlocksPerSlice, bits |-> {}]
    /\ node_map = [i \in 0..(MaxInodes - 1) |-> ZeroNode]
    /\ vn = [v \in Vnodes |-> NoVnode(v)]
    /\ mount \in options
    /\ wb_state = IF mount.readonly THEN "null" ELSE "up"
    /\ ret = NoRet
    /\ journal_q = <<>>
    /\ wb_q = <<>>

InitRest ==
    /\ wb_done = 0
    /\ disk = 0
    /\ hash = 0
    /\ thr = 0
    /\ life = 0

\* Mounted read-write with the journal on a volume that can grow.
Init == InitFs({o \in MountOptions : ~o.readonly /\ o.journal}, {TRUE}, {InitDatSlices})
        /\ InitRest
\* Mounted with any options, on a volume of any size that can grow or not.
InitAny == InitFs(MountOptions, BOOLEAN, 1..InitDatSlices) /\ InitRest

QueuesIdle == journal_q = <<>> /\ wb_q = <<>>
HasHandle(v) == vn[v].fd_count > 0 /\ vn[v].cached = "open"

AllocFails == {"none", "grow", "compressor", "map", "attach"}
\* "queue": the writeback thread fails on the device while the write that
\* completes the blob is between its two calls of EnqueueWork.
WriteFails == {"none", "vmo_write", "compress_update", "compress_end",
               "merkle_create", "signal", "queue"}
ReadFails == {"none", "map", "attach", "transact", "corrupt", "decompress", "vmo_read",
              "clone"}
EventFails == {"none", "event", "duplicate"}

Finish(s, op, v) ==
    /\ Store(s)
    /\ ret' = Return(op, v, s.status, s.actual, s.reset, s.at, s.log)

\* Blobfs::NewBlob by a single client: the lookup and the insert are one step.
NewBlobOp(v, d) ==
    /\ Gone(vn[v])
    /\ IF \E w \in Vnodes : vn[w].cached # "none" /\ vn[w].digest = d
       THEN Finish(WithStatus(Cur, "AlreadyExists"), "newblob", v)
       ELSE Finish([Cur EXCEPT !.vn[v] = NewVnode(d)], "newblob", v)

SpaceAllocateOp(v, size_data, fail) ==
    /\ HasHandle(v)
    /\ Finish(SpaceAllocate(Cur, v, size_data, fail), "truncate", v)

WriteOp(v, len, good, csz, fail) ==
    /\ HasHandle(v)
    /\ Finish(WriteInternal(Cur, v, len, good, csz, fail), "write", v)

ReadOp(v, len, off, fail) ==
    /\ HasHandle(v)
    /\ Finish(ReadInternal(Cur, v, len, off, fail), "read", v)

CloneVmoOp(v, fail) ==
    /\ HasHandle(v)
    /\ vn[v].clones < MaxClones
    /\ Finish(CloneVmo(Cur, v, fail), "clone", v)

GetReadableEventOp(v, fail) ==
    /\ HasHandle(v)
    /\ Finish(GetReadableEvent(Cur, v, fail), "event", v)

\* Opening a cached blob: LookupBlob, then VnodeBlob::Open counts the handle.
OpenOp(v) ==
    /\ vn[v].cached \in {"open", "closed"}
    /\ vn[v].fd_count < MaxFds
    /\ Finish([Cur EXCEPT !.vn[v].cached = "open", !.vn[v].fd_count = @ + 1], "open", v)

\* VnodeBlob::Close, then the release of the connection's reference.
CloseOp(v) ==
    /\ HasHandle(v)
    /\ LET s1 == TryPurge([Cur EXCEPT !.vn[v].fd_count = @ - 1], v)
       IN  Finish(Recycle(s1, v), "close", v)

\* Unlink through the directory: LookupBlob, QueueUnlink, release.
UnlinkOp(v) ==
    /\ vn[v].cached \in {"open", "closed"}
    /\ LET s1 == QueueUnlink([Cur EXCEPT !.vn[v].cached = "open"], v)
       IN  Finish(Recycle(s1, v), "unlink", v)

\* A client closes a clone; when it was the last, the kernel raises
\* ZX_VMO_ZERO_CHILDREN and the armed wait fires: its packet, which records the
\* signal it observed, is queued to the dispatcher.
CloneCloseOp(v) ==
    /\ vn[v].clones > 0
    /\ LET s1 == [Cur EXCEPT !.vn[v].clones = @ - 1,
                             !.vn[v].clone_watcher =
                                 IF vn[v].clones = 1 /\ @ = "armed" THEN "fired" ELSE @]
       IN  Finish(s1, "cloneclose", v)

\* VnodeBlob::HandleNoClones, run by the dispatcher for the packet of the wait,
\* then the release of the reference clone_ref_ held.
HandleNoClones(s, v) ==
    [s EXCEPT !.vn[v].clone_watcher = "idle", !.vn[v].clone_ref = FALSE]

HandleNoClonesOp(v) ==
    /\ vn[v].clone_watcher = "fired"
    /\ Finish(Recycle(HandleNoClones(Cur, v), v), "noclones", v)

\* The environment: the writeback queue fails.
QueueFail ==
    /\ wb_state = "up"
    /\ wb_state' = "failed"
    /\ UNCHANGED <<info, block_map, node_map, fvm_free, vn, mount, ret,
                   journal_q, wb_q>>

\* The operation is over: the client has its result, and the queue threads take
\* the work it left.
Complete ==
    /\ ret # NoRet \/ ~QueuesIdle
    /\ ret' = NoRet
    /\ journal_q' = <<>>
    /\ wb_q' = <<>>
    /\ UNCHANGED <<info, block_map, node_map, fvm_free, vn, mount, wb_state>>

BlobSizes == {0, 1, MaxBlobSize}
WriteLens == {0, kBlobfsBlockSize, MaxBlobSize + 1}
CompressedSizes == {1, MaxBlobSize}

Truncate(v, fails) == \E size_data \in BlobSizes, fail \in fails :
                          SpaceAllocateOp(v, size_data, fail)
Write(v, lens, fails) == \E len \in lens, good \in BOOLEAN, csz \in CompressedSizes,
                            fail \in fails : WriteOp(v, len, good, csz, fail)
ReadLens == {1, MaxBlobSize}
ReadOffsets == {0, 1, MaxBlobSize}
Read(v, fails) == \E len \in ReadLens, off \in ReadOffsets, fail \in fails :
                      ReadOp(v, len, off, fail)
Clone(v, fails) == \E fail \in fails : CloneVmoOp(v, fail)
Event(v, fails) == \E fail \in fails : GetReadableEventOp(v, fail)
NewBlob(v) == \E d \in {v, kNullDigest} : NewBlobOp(v, d)

Idle == ret = NoRet /\ QueuesIdle
restVars == <<wb_done, disk, hash, thr, life>>

\* Spec: two clients create blobs, write each in one piece, close and unlink
\* them, and the volume grows.  The first client writes the empty blob, a
\* one-block blob or a blob with a Merkle tree; the second one-block blobs.
SpecDigests(v) == IF v = 1 THEN {v, kNullDigest} ELSE {v}
SpecSizes(v) ==
    IF vn[v].digest = kNullDigest THEN {0}
    ELSE IF v = 1 THEN {1, MaxBlobSize} ELSE {1}

FsOp ==
    \E v \in Vnodes :
        \/ \E d \in SpecDigests(v) : NewBlobOp(v, d)
        \/ \E size_data \in SpecSizes(v) : SpaceAllocateOp(v, size_data, "none")
        \/ WriteOp(v, MaxBlobSize + 1, TRUE, MaxBlobSize, "none")
        \/ CloseOp(v)
        \/ UnlinkOp(v)

Next ==
    \/ Idle /\ FsOp /\ UNCHANGED restVars
    \/ Complete /\ UNCHANGED restVars

Spec == Init /\ [][Next]_vars

\* SpecAlloc: the clients of Spec, and the first one's SpaceAllocate meets
\* every failure it can.
AllocOps ==
    \/ FsOp
    \/ \E size_data \in SpecSizes(1), fail \in AllocFails \ {"none"} :
           SpaceAllocateOp(1, size_data, fail)

NextAlloc ==
    \/ Idle /\ AllocOps /\ UNCHANGED restVars
    \/ Complete /\ UNCHANGED restVars

SpecAlloc == Init /\ [][NextAlloc]_vars

\* SpecWrite: one blob's write path with every failure it can meet.
WriteOps ==
    \E v \in {1} :
        \/ NewBlob(v)
        \/ Truncate(v, AllocFails)
        \/ Write(v, WriteLens, WriteFails)
        \/ Read(v, {"none"})
        \/ Clone(v, {"none"})
        \/ Event(v, {"none"})
        \/ CloseOp(v)

NextWrite ==
    \/ Idle /\ WriteOps /\ UNCHANGED restVars
    \/ Idle /\ QueueFail /\ UNCHANGED restVars
    \/ Complete /\ UNCHANGED restVars

SpecWrite == InitAny /\ [][NextWrite]_vars

\* SpecRead: one committed blob is read and cloned, with every failure of the
\* load, while the cache tears its buffer down and brings it back.
ReadOps ==
    \E v \in {1} :
        \/ NewBlob(v)
        \/ Truncate(v, {"none"})
        \/ Write(v, WriteLens, {"none"})
        \/ Read(v, ReadFails)
        \/ Clone(v, ReadFails)
        \/ CloneCloseOp(v)
        \/ HandleNoClonesOp(v)
        \/ OpenOp(v)
        \/ CloseOp(v)

NextRead ==
    \/ Idle /\ ReadOps /\ UNCHANGED restVars
    \/ Complete /\ UNCHANGED restVars

SpecRead == InitAny /\ [][NextRead]_vars

(***************************************************************************)
(* The device, the queue threads and a crash: SpecJournal.                 *)
(*                                                                         *)
(* disk.info, disk.bits and disk.nodes are the home locations of the       *)
(* metadata, disk.data the blob each data block holds the content of, and  *)
(* disk.ring the journal's entries, the last of which may be incomplete;    *)
(* disk.crashes counts the times the machine has stopped.                  *)
(***************************************************************************)
\* The bits a write of bitmap blocks covers, and the nodes a write of
\* node-table blocks covers.
BitsOf(w) ==
    {b \in 0..(MaxBlocks - 1) : b \div kBlobfsBlockBits \in w.idx..(w.idx + w.len - 1)}
NodesOf(w) ==
    {i \in 0..(MaxInodes - 1) :
        (i * kBlobfsInodeSize) \div kBlobfsBlockSize \in w.idx..(w.idx + w.len - 1)}

\* One write of a work item reaches its location on the device.
ApplyWrite(d, w, item) ==
    CASE w.t = "info" -> [d EXCEPT !.info = item.snap.info]
      [] w.t = "bitmap" ->
            [d EXCEPT !.bits = (@ \ BitsOf(w)) \cup (item.snap.bits \cap BitsOf(w))]
      [] w.t = "node" ->
            [d EXCEPT !.nodes = [i \in DOMAIN @ |->
                                    IF i \in NodesOf(w) THEN item.snap.nodes[i] ELSE @[i]]]
      [] w.t = "data" ->
            [d EXCEPT !.data = [b \in DOMAIN @ |->
                                   IF b \in w.idx..(w.idx + w.len - 1) THEN item.tag
                                   ELSE @[b]]]

RECURSIVE ApplyAll(_, _, _)
ApplyAll(d, ws, item) ==
    IF ws = <<>> THEN d ELSE ApplyAll(ApplyWrite(d, ws[1], item), Tail(ws), item)

\* Journal::Replay: the intact entries are applied in order; the first entry
\* that is truncated ends the replay, and the ring is cleared.
RECURSIVE ReplayRing(_, _)
ReplayRing(d, ring) ==
    IF ring = <<>> \/ ~ring[1].complete THEN d
    ELSE ReplayRing(ApplyAll(d, ring[1].item.writes, ring[1].item), Tail(ring))
Replay(d) == [ReplayRing(d, d.ring) EXCEPT !.ring = <<>>]
MaxCrashes == 1

FormattedDisk(i) ==
    [info |-> i, bits |-> {}, nodes |-> [n \in 0..(MaxInodes - 1) |-> ZeroNode],
     data |-> [b \in 0..(MaxBlocks - 1) |-> kZeroHash], ring |-> <<>>,
     crashes |-> 0]

\* The extents of the blob whose inode is node i of a node table.
RECURSIVE NodeChainExtents(_, _, _)
NodeChainExtents(nodes, i, fuel) ==
    nodes[i].extents \o
        (IF nodes[i].next = 0 \/ fuel = 0 THEN <<>>
         ELSE NodeChainExtents(nodes, nodes[i].next, fuel - 1))
DiskPrimaries(d) ==
    {i \in 0..(d.info.inode_count - 1) : d.nodes[i].alloc /\ ~d.nodes[i].container}
DataOnDisk(d, i) ==
    \A b \in ExtentsBlocks(NodeChainExtents(d.nodes, i, MaxInodes)) :
        b \in DOMAIN d.data /\ d.data[b] = d.nodes[i].digest

\* Blobfs::InitializeVnodes: a closed, readable vnode for an allocated inode
\* that is not an extent container; its data is read when it is first needed.
LoadedVnode(d, i) ==
    [NewVnode(d.nodes[i].digest) EXCEPT
        !.state = "Readable", !.map_index = i,
        !.blob_size = d.nodes[i].blob_size, !.block_count = d.nodes[i].block_count,
        !.compressed = d.nodes[i].compressed,
        !.fd_count = 0, !.cached = "closed",
        !.ondisk = IF DataOnDisk(d, i) THEN "good" ELSE "bad"]

\* Journal: the journal thread takes the oldest work it accepted and hands the
\* writes of its ring entry to the writeback queue.
JournalThread ==
    /\ ret = NoRet
    /\ journal_q # <<>>
    /\ journal_q' = Tail(journal_q)
    /\ wb_q' = Append(wb_q, [Head(journal_q) EXCEPT !.kind = "entry"])
    /\ UNCHANGED <<info, block_map, node_map, fvm_free, vn, mount, wb_state, ret,
                   wb_done, disk>>

\* WritebackQueue: the consumer issues the next write of the oldest work item.
\* A ring entry is whole once its commit block is written; the journal then
\* queues the entry's writes to their home locations, and drops the entry
\* when they are done.
WritebackThread ==
    /\ ret = NoRet
    /\ wb_q # <<>>
    /\ LET item == Head(wb_q)
           last == wb_done + 1 >= Len(item.writes)
       IN  IF item.kind = "entry"
           THEN IF wb_done = 0
                THEN /\ disk' = [disk EXCEPT !.ring =
                                    Append(@, [item |-> item, complete |-> FALSE])]
                     /\ wb_done' = 1
                     /\ wb_q' = wb_q
                ELSE /\ disk' = [disk EXCEPT !.ring[Len(disk.ring)].complete = TRUE]
                     /\ wb_done' = 0
                     /\ wb_q' = Append(Tail(wb_q), [item EXCEPT !.kind = "home"])
           ELSE LET d1 == IF item.writes = <<>> THEN disk
                          ELSE ApplyWrite(disk, item.writes[wb_done + 1], item)
                IN  /\ disk' = IF last /\ item.kind = "home"
                               THEN [d1 EXCEPT !.ring = Tail(@)] ELSE d1
                    /\ wb_done' = IF last THEN 0 ELSE wb_done + 1
                    /\ wb_q' = IF last THEN Tail(wb_q) ELSE wb_q
    /\ UNCHANGED <<info, block_map, node_map, fvm_free, vn, mount, wb_state, ret,
                   journal_q>>

\* The machine stops and the volume is mounted again with the same options:
\* CheckFvmConsistency gives back the slices the superblock does not count,
\* Blobfs::InitializeWriteback replays the journal and Blobfs::Reload reads the
\* superblock, the maps and the vnodes back.
CrashRemount ==
    LET d == [Replay(disk) EXCEPT !.crashes = @ + 1]
    IN  /\ disk.crashes < MaxCrashes
        /\ disk' = d
        /\ info' = d.info
        /\ block_map' = [size |-> d.info.data_block_count, bits |-> d.bits]
        /\ node_map' = d.nodes
        /\ fvm_free' = fvm_free + info.vslice_count - d.info.vslice_count
        /\ vn' = [v \in Vnodes |->
                     IF v = 1 /\ DiskPrimaries(d) # {}
                     THEN LoadedVnode(d, CHOOSE i \in DiskPrimaries(d) :
                                             \A j \in DiskPrimaries(d) : i <= j)
                     ELSE NoVnode(v)]
        /\ ret' = [NoRet EXCEPT !.op = "remount"]
        /\ journal_q' = <<>>
        /\ wb_q' = <<>>
        /\ wb_done' = 0
        /\ UNCHANGED <<mount, wb_state>>

\* The client has the operation's result.
Ack ==
    /\ ret # NoRet
    /\ ret' = NoRet
    /\ UNCHANGED <<info, block_map, node_map, fvm_free, vn, mount, wb_state,
                   journal_q, wb_q, wb_done, disk>>

\* SpecJournal: one client creates, writes, closes and unlinks blobs on a
\* volume of one data slice, mounted with or without the journal, while the
\* queue threads write the work out; the machine may stop at any point.
MaxQueued == 0
JournalOps ==
    \E v \in {1} :
        \/ NewBlobOp(v, v)
        \/ \E size_data \in BlobSizes : SpaceAllocateOp(v, size_data, "none")
        \/ \E len \in {kBlobfsBlockSize, MaxBlobSize + 1} :
               WriteOp(v, len, TRUE, MaxBlobSize, "none")
        \/ CloseOp(v)
        \/ UnlinkOp(v)

InitJournal ==
    /\ InitFs({o \in MountOptions : ~o.readonly}, {TRUE}, {1})
    /\ wb_done = 0
    /\ disk = FormattedDisk(info)
    /\ hash = 0
    /\ thr = 0
    /\ life = 0

NextJournal ==
    \/ /\ ret = NoRet
       /\ Len(journal_q) + Len(wb_q) <= MaxQueued
       /\ JournalOps
       /\ UNCHANGED <<wb_done, disk, hash, thr, life>>
    \/ Ack /\ UNCHANGED <<cacheVars, lifeVars>>
    \/ JournalThread /\ UNCHANGED <<cacheVars, lifeVars>>
    \/ WritebackThread /\ UNCHANGED <<cacheVars, lifeVars>>
    \/ CrashRemount /\ UNCHANGED <<cacheVars, lifeVars>>

SpecJournal == InitJournal /\ [][NextJournal]_vars

(***************************************************************************)
(* The blob cache under several threads: SpecCache and SpecLookup.         *)
(*                                                                         *)
(* All vnode objects here have the same digest.  hash.open and hash.closed *)
(* are open_hash_ and closed_hash_ as sets of objects, hash.refs the       *)
(* objects' reference counts, hash.live the objects not yet destroyed and  *)
(* hash.purged those in state Purged.  A thread is idle, between the       *)
(* lookup and the insert of NewBlob ("insert"), holds a reference ("held", *)
(* or "drop" for the reference LookupBlob(digest, nullptr) obtained), or   *)
(* runs fbl_recycle for an object whose count it brought to 0 ("recycle"); *)
(* a thread in LookupBlob is "looking".  hash.locked says that hash_lock_  *)
(* is held between two steps; the functions here release it before they    *)
(* return or loop, so every step finds it free.                            *)
(***************************************************************************)
NumThreads == 3
MaxObjs == 2
Threads == 1..NumThreads
Objs == 1..MaxObjs

IdleThread == [pc |-> "idle", obj |-> 0, op |-> "none", res |-> "none"]

\* Blobfs::VnodeUpgradeLocked: closed_hash_.erase(key), then open_hash_.insert;
\* the reference leaked into the closed table is the one returned.
VnodeUpgradeLocked(h, c) ==
    IF c = 0 THEN [h |-> h, vn |-> 0]
    ELSE [h |-> [h EXCEPT !.closed = @ \ {c}, !.open = @ \cup {c}], vn |-> c]

\* LookupBlob that resurrects a vnode whose count has dropped to 0.
LookupBlobResurrect(h, o, c) ==
    IF o # 0
    THEN [h |-> [h EXCEPT !.refs[o] = @ + 1], vn |-> o, again |-> FALSE]
    ELSE [h |-> VnodeUpgradeLocked(h, c).h, vn |-> VnodeUpgradeLocked(h, c).vn,
          again |-> FALSE]

\* LookupBlob that does not look into the closed table.
LookupBlobOpenOnly(h, o, c) ==
    IF o # 0
    THEN IF h.refs[o] > 0
         THEN [h |-> [h EXCEPT !.refs[o] = @ + 1], vn |-> o, again |-> FALSE]
         ELSE [h |-> h, vn |-> 0, again |-> TRUE]
    ELSE [h |-> h, vn |-> 0, again |-> FALSE]

\* LookupBlob that keeps hash_lock_ when it goes round the loop.
LookupBlobKeepsLock(h, o, c) ==
    IF o # 0
    THEN IF h.refs[o] > 0
         THEN [h |-> [h EXCEPT !.refs[o] = @ + 1], vn |-> o, again |-> FALSE]
         ELSE [h |-> [h EXCEPT !.locked = TRUE], vn |-> 0, again |-> TRUE]
    ELSE [h |-> VnodeUpgradeLocked(h, c).h, vn |-> VnodeUpgradeLocked(h, c).vn,
          again |-> FALSE]

\* Blobfs::LookupBlob, one pass of its loop under hash_lock_: o is what
\* open_hash_.find(key) yields and c what closed_hash_.erase(key) would (0 for
\* none).  MakeRefPtrUpgradeFromRaw fails on a count of 0, and the loop repeats.
LookupBlob(h, o, c) ==
    IF o # 0
    THEN IF h.refs[o] > 0
         THEN [h |-> [h EXCEPT !.refs[o] = @ + 1], vn |-> o, again |-> FALSE]
         ELSE [h |-> h, vn |-> 0, again |-> TRUE]
    ELSE [h |-> VnodeUpgradeLocked(h, c).h, vn |-> VnodeUpgradeLocked(h, c).vn,
          again |-> FALSE]

\* What find and erase by key may yield: with one entry of the key, that entry.
Probe(set) == IF set = {} THEN {0} ELSE set

\* Blobfs::VnodeInsertClosedLocked: insert_or_find fails on a key that is there.
VnodeInsertClosedLocked(h, o) ==
    IF h.closed # {}
    THEN [h |-> [h EXCEPT !.purged = @ \cup {o}], status |-> "AlreadyExists"]
    ELSE [h |-> [h EXCEPT !.closed = @ \cup {o}], status |-> "OK"]

\* Blobfs::VnodeReleaseSoft: ResurrectRef, open_hash_.erase(key), which removes
\* entry e, and VnodeInsertClosedLocked, whose failure is fatal (ZX_ASSERT).
CacheReleaseSoft(h, o, e) ==
    LET h1 == [h EXCEPT !.refs[o] = 1, !.open = @ \ {e}]
        r == VnodeInsertClosedLocked(h1, o)
    IN  [r.h EXCEPT !.asserted = @ \/ r.status # "OK"]

\* Blobfs::VnodeReleaseHard on behalf of PurgeBlob: the vnode becomes Purged.
CacheReleaseHard(h, o, e) ==
    [h EXCEPT !.open = @ \ {e}, !.purged = @ \cup {o}]

\* A thread calls LookupBlob(digest, &out).
LookupCall(t) ==
    /\ thr[t].pc = "idle"
    /\ thr' = [thr EXCEPT ![t] = [pc |-> "looking", obj |-> 0, op |-> "lookup",
                                  res |-> "none"]]
    /\ hash' = hash

\* One pass of the loop of LookupBlob, from taking hash_lock_ to releasing it;
\* the pass that finds the count at 0 changes nothing and the loop goes on.
LookupStep(t) ==
    /\ thr[t].pc = "looking"
    /\ ~hash.locked
    /\ \E o \in Probe(hash.open), c \in Probe(hash.closed) :
          LET r == LookupBlob(hash, o, c)
          IN  /\ hash' = r.h
              /\ thr' = [thr EXCEPT ![t] =
                            IF r.again THEN @
                            ELSE IF r.vn = 0
                            THEN [IdleThread EXCEPT !.op = "lookup", !.res = "NotFound"]
                            ELSE [pc |-> "held", obj |-> r.vn, op |-> "lookup",
                                  res |-> "OK"]]

\* Blobfs::NewBlob up to the return of LookupBlob(digest, nullptr): a vnode
\* that was found is referenced by the lookup's local RefPtr, which is dropped
\* when LookupBlob returns.
NewBlobLookup(t) ==
    /\ thr[t].pc = "idle"
    /\ ~hash.locked
    /\ \E o \in Probe(hash.open), c \in Probe(hash.closed) :
          LET r == LookupBlob(hash, o, c)
          IN  /\ hash' = r.h
              /\ thr' = [thr EXCEPT ![t] =
                            IF r.again THEN @
                            ELSE IF r.vn = 0
                            THEN [pc |-> "insert", obj |-> 0, op |-> "new", res |-> "none"]
                            ELSE [pc |-> "drop", obj |-> r.vn, op |-> "new",
                                  res |-> "AlreadyExists"]]

\* Blobfs::NewBlob from the allocation on: the new vnode is inserted into
\* open_hash_ under hash_lock_, which was not held since the lookup.
NewBlobInsert(t) ==
    /\ thr[t].pc = "insert"
    /\ ~hash.locked
    /\ hash.made < MaxObjs
    /\ LET o == hash.made + 1
       IN  /\ hash' = [hash EXCEPT !.made = o, !.live = @ \cup {o},
                                   !.open = @ \cup {o}, !.refs[o] = 1]
           /\ thr' = [thr EXCEPT ![t] = [pc |-> "held", obj |-> o, op |-> "new",
                                         res |-> "OK"]]

\* A thread drops its reference; the one that brings the count to 0 goes on
\* to run fbl_recycle.
ReleaseStep(t) ==
    /\ thr[t].pc \in {"held", "drop"}
    /\ LET o == thr[t].obj
       IN  /\ hash' = [hash EXCEPT !.refs[o] = @ - 1]
           /\ thr' = [thr EXCEPT ![t] =
                         IF hash.refs[o] = 1
                         THEN [@ EXCEPT !.pc = "recycle"]
                         ELSE [IdleThread EXCEPT !.op = thr[t].op, !.res = thr[t].res]]

\* VnodeBlob::fbl_recycle: a Purged vnode is destroyed, any other goes to the
\* closed table through VnodeReleaseSoft.
RecycleStep(t) ==
    /\ thr[t].pc = "recycle"
    /\ ~hash.locked
    /\ LET o == thr[t].obj
       IN  IF o \in hash.purged
           THEN hash' = [hash EXCEPT !.live = @ \ {o}]
           ELSE \E e \in Probe(hash.open) : hash' = CacheReleaseSoft(hash, o, e)
    /\ thr' = [thr EXCEPT ![t] = IdleThread]

\* The only holder of a vnode unlinks it: PurgeBlob, VnodeReleaseHard.
PurgeStep(t) ==
    /\ thr[t].pc = "held"
    /\ ~hash.locked
    /\ hash.refs[thr[t].obj] = 1
    /\ thr[t].obj \notin hash.purged
    /\ \E e \in Probe(hash.open) : hash' = CacheReleaseHard(hash, thr[t].obj, e)
    /\ thr' = [thr EXCEPT ![t].op = "unlink"]

EmptyCache ==
    [open |-> {}, closed |-> {}, refs |-> [o \in Objs |-> 0], live |-> {},
     purged |-> {}, made |-> 0, asserted |-> FALSE, locked |-> FALSE]

InitCacheWith(h) ==
    /\ InitFs({o \in MountOptions : ~o.readonly /\ o.journal}, {TRUE}, {InitDatSlices})
    /\ wb_done = 0
    /\ disk = 0
    /\ hash = h
    /\ thr = [t \in Threads |-> IdleThread]
    /\ life = 0

\* SpecCache: threads create, look up, release and unlink blobs of one digest
\* on an empty cache.
InitCache == InitCacheWith(EmptyCache)
NextCache ==
    \E t \in Threads :
        \/ NewBlobLookup(t) /\ UNCHANGED <<fsVars, qVars, lifeVars>>
        \/ NewBlobInsert(t) /\ UNCHANGED <<fsVars, qVars, lifeVars>>
        \/ LookupCall(t) /\ UNCHANGED <<fsVars, qVars, lifeVars>>
        \/ LookupStep(t) /\ UNCHANGED <<fsVars, qVars, lifeVars>>
        \/ ReleaseStep(t) /\ UNCHANGED <<fsVars, qVars, lifeVars>>
        \/ RecycleStep(t) /\ UNCHANGED <<fsVars, qVars, lifeVars>>
        \/ PurgeStep(t) /\ UNCHANGED <<fsVars, qVars, lifeVars>>
SpecCache == InitCache /\ [][NextCache]_vars

\* SpecLookup: the blob is in the closed table, as Blobfs::InitializeVnodes
\* leaves it at mount; threads look it up, release it and unlink it.
InitLookup ==
    InitCacheWith([EmptyCache EXCEPT !.closed = {1}, !.live = {1}, !.refs[1] = 1,
                                     !.made = 1])
NextLookup ==
    \E t \in Threads :
        \/ LookupCall(t) /\ UNCHANGED <<fsVars, qVars, lifeVars>>
        \/ LookupStep(t) /\ UNCHANGED <<fsVars, qVars, lifeVars>>
        \/ ReleaseStep(t) /\ UNCHANGED <<fsVars, qVars, lifeVars>>
        \/ RecycleStep(t) /\ UNCHANGED <<fsVars, qVars, lifeVars>>
        \/ PurgeStep(t) /\ UNCHANGED <<fsVars, qVars, lifeVars>>
SpecLookup == InitLookup /\ [][NextLookup]_vars

\* SpecLookupFair: hash_lock_ is fair, so a thread in the loop of LookupBlob
\* gets its passes and a pass that can end the loop is not put off for ever;
\* a thread that has brought a count to 0 goes on into fbl_recycle.
SpecLookupFair ==
    /\ SpecLookup
    /\ \A t \in Threads :
          /\ SF_vars(LookupStep(t) /\ UNCHANGED <<fsVars, qVars, lifeVars>>)
          /\ WF_vars(RecycleStep(t) /\ UNCHANGED <<fsVars, qVars, lifeVars>>)

(***************************************************************************)
(* Readers of one blob on threads of their own.  VnodeBlob::ReadInternal   *)
(* and VnodeBlob::InitVmos take no lock, so their statements interleave;   *)
(* thr holds each reader's position and what its read returned.            *)
(***************************************************************************)
IdleReader == [pc |-> "idle", res |-> "none"]
Reader(t, pc) == /\ thr[t].pc = pc
                 /\ UNCHANGED <<info, block_map, node_map, fvm_free, mount, wb_state,
                                ret, qVars, hash, life>>
ReaderAt(t, pc) == thr' = [thr EXCEPT ![t].pc = pc]
ReaderDone(t, res) == thr' = [thr EXCEPT ![t].pc = "idle", ![t].res = res]

\* ReadInternal: the blob is Readable and not empty; InitVmos is entered.
ReaderCall(t) ==
    /\ Reader(t, "idle")
    /\ thr' = [thr EXCEPT ![t] = [IdleReader EXCEPT !.pc = "InitVmos"]]
    /\ UNCHANGED vn

\* if (mapping_.vmo()) return ZX_OK;
ReaderCheck(t) ==
    /\ Reader(t, "InitVmos")
    /\ ReaderAt(t, IF vn[1].mapping # "none" THEN "vmo_read" ELSE "CreateAndMap")
    /\ UNCHANGED vn

\* mapping_.CreateAndMap and AttachVmo: a new buffer of zeros.  When another
\* reader has made the buffer meanwhile, the two calls race on mapping_: the
\* call fails and the cleanup closes the handles, or it replaces the buffer.
ReaderCreate(t) ==
    /\ Reader(t, "CreateAndMap")
    /\ \/ /\ vn' = [vn EXCEPT ![1] = [AttachVmo(@) EXCEPT !.mapping = "read",
                                                        !.buf = "zero",
                                                        !.verified = FALSE]]
          /\ ReaderAt(t, "load")
       \/ /\ vn[1].mapping # "none"
          /\ vn' = [vn EXCEPT ![1] = BlobCloseHandles(@)]
          /\ ReaderDone(t, "BadState")

\* InitUncompressed / InitCompressed: the device is read into the buffer; a
\* buffer that another reader's cleanup has closed is gone.
ReaderLoad(t) ==
    /\ Reader(t, "load")
    /\ IF vn[1].mapping = "none"
       THEN ReaderDone(t, "fault") /\ UNCHANGED vn
       ELSE vn' = [vn EXCEPT ![1].buf = vn[1].ondisk] /\ ReaderAt(t, "Verify")

\* Verify, and the cleanup when it fails.
ReaderVerify(t) ==
    /\ Reader(t, "Verify")
    /\ IF vn[1].mapping = "none"
       THEN ReaderDone(t, "fault") /\ UNCHANGED vn
       ELSE IF vn[1].buf = "good"
       THEN vn' = [vn EXCEPT ![1].verified = TRUE] /\ ReaderAt(t, "vmo_read")
       ELSE /\ vn' = [vn EXCEPT ![1] = BlobCloseHandles(@)]
            /\ ReaderDone(t, "IntegrityError")

\* mapping_.vmo().read: the bytes the buffer holds now.
ReaderRead(t) ==
    /\ Reader(t, "vmo_read")
    /\ ReaderDone(t, IF vn[1].mapping = "none" THEN "BadHandle" ELSE vn[1].buf)
    /\ UNCHANGED vn

\* SpecReaders: a client writes a blob, closes it, which tears its buffer
\* down, and opens it again; then the readers read it, each on its thread.
ReadersIdle == \A t \in Threads : thr[t].pc = "idle"
InitReaders ==
    /\ InitFs({o \in MountOptions : ~o.readonly /\ o.journal}, {TRUE}, {InitDatSlices})
    /\ wb_done = 0
    /\ disk = 0
    /\ hash = 0
    /\ life = 0
    /\ thr = [t \in Threads |-> IdleReader]

ReadersOps ==
    \E v \in {1} :
        \/ NewBlobOp(v, v)
        \/ \E size_data \in {1, MaxBlobSize} : SpaceAllocateOp(v, size_data, "none")
        \/ WriteOp(v, MaxBlobSize + 1, TRUE, MaxBlobSize, "none")
        \/ CloseOp(v)
        \/ OpenOp(v)

NextReaders ==
    \/ Idle /\ ReadersIdle /\ ReadersOps /\ UNCHANGED restVars
    \/ Complete /\ UNCHANGED restVars
    \/ \E t \in Threads :
        /\ Idle
        /\ HasHandle(1) /\ vn[1].state = "Readable" /\ vn[1].blob_size > 0
        /\ \/ ReaderCall(t)
           \/ ReaderCheck(t)
           \/ ReaderCreate(t)
           \/ ReaderLoad(t)
           \/ ReaderVerify(t)
           \/ ReaderRead(t)

SpecReaders == InitReaders /\ [][NextReaders]_vars

(***************************************************************************)
(* Mount, step by step, on a volume whose machine stopped.  life holds the *)
(* position in Mount, the steps done and the number of journal entries     *)
(* the replay found whole.                                                 *)
(***************************************************************************)
\* Mount that reloads the metadata before it replays the journal.
MountNextReloadFirst(pc, options) ==
    CASE pc = "Initialize" -> IF options.readonly THEN "CheckFvmConsistency"
                              ELSE "WritebackQueue::Create"
      [] pc = "WritebackQueue::Create" -> "Reload"
      [] pc = "Reload" -> "Replay"
      [] pc = "Replay" -> IF options.journal THEN "InitWriteback" ELSE "journal_.reset"
      [] pc = "InitWriteback" -> "CheckFvmConsistency"
      [] pc = "journal_.reset" -> "CheckFvmConsistency"
      [] pc = "CheckFvmConsistency" -> "ServeDirectory"
      [] pc = "ServeDirectory" -> "mounted"

\* The calls of Mount and Blobfs::InitializeWriteback in their order.
MountNext(pc, options) ==
    CASE pc = "Initialize" -> IF options.readonly THEN "CheckFvmConsistency"
                              ELSE "WritebackQueue::Create"
      [] pc = "WritebackQueue::Create" -> "Replay"
      [] pc = "Replay" -> "Reload"
      [] pc = "Reload" -> IF options.journal THEN "InitWriteback" ELSE "journal_.reset"
      [] pc = "InitWriteback" -> "CheckFvmConsistency"
      [] pc = "journal_.reset" -> "CheckFvmConsistency"
      [] pc = "CheckFvmConsistency" -> "ServeDirectory"
      [] pc = "ServeDirectory" -> "mounted"

MountStep(pc) ==
    /\ life.pc = pc
    /\ life' = [life EXCEPT !.pc = MountNext(pc, mount), !.log = Append(@, pc)]

\* Blobfs::Create and Blobfs::Reload: the superblock, the maps and the vnodes
\* are read from the device.
LoadMetadata(d) ==
    /\ info' = d.info
    /\ block_map' = [size |-> d.info.data_block_count, bits |-> d.bits]
    /\ node_map' = d.nodes
    /\ vn' = [v \in Vnodes |->
                 IF v = 1 /\ DiskPrimaries(d) # {}
                 THEN LoadedVnode(d, CHOOSE i \in DiskPrimaries(d) :
                                         \A j \in DiskPrimaries(d) : i <= j)
                 ELSE NoVnode(v)]

\* The machine stops and the volume is mounted again, with any options:
\* Initialize reads the superblock and Blobfs::Create loads the metadata and
\* makes the journal object; there is no writeback queue yet.
MountInitialize ==
    /\ life.pc = "mounted"
    /\ disk.crashes < MaxCrashes
    /\ disk' = [disk EXCEPT !.crashes = @ + 1]
    /\ LoadMetadata(disk)
    /\ mount' \in MountOptions
    /\ wb_state' = "null"
    /\ ret' = NoRet
    /\ journal_q' = <<>>
    /\ wb_q' = <<>>
    /\ wb_done' = 0
    /\ life' = [pc |-> MountNext("Initialize", mount'), log |-> <<"Initialize">>,
                replayed |-> 0]
    /\ UNCHANGED fvm_free

MountWritebackCreate ==
    /\ MountStep("WritebackQueue::Create")
    /\ wb_state' = "up"
    /\ UNCHANGED <<info, block_map, node_map, fvm_free, vn, mount, ret, qVars>>

RECURSIVE WholeEntries(_)
WholeEntries(ring) ==
    IF ring = <<>> \/ ~ring[1].complete THEN 0 ELSE 1 + WholeEntries(Tail(ring))

MountReplay ==
    /\ life.pc = "Replay"
    /\ life' = [pc |-> MountNext("Replay", mount), log |-> Append(life.log, "Replay"),
                replayed |-> WholeEntries(disk.ring)]
    /\ disk' = Replay(disk)
    /\ UNCHANGED <<fsVars, journal_q, wb_q, wb_done>>

MountReload ==
    /\ MountStep("Reload")
    /\ LoadMetadata(disk)
    /\ UNCHANGED <<fvm_free, mount, wb_state, ret, qVars>>

\* Journal::InitWriteback starts the journal's thread; without the journal
\* option the journal object is dropped.
MountJournal ==
    /\ MountStep("InitWriteback") \/ MountStep("journal_.reset")
    /\ UNCHANGED <<fsVars, qVars>>

\* CheckFvmConsistency: slices the superblock does not count are given back.
MountCheckFvm ==
    /\ MountStep("CheckFvmConsistency")
    /\ fvm_free' = FvmPoolSlices + 1 + InitInoSlices - info.vslice_count
    /\ UNCHANGED <<info, block_map, node_map, vn, mount, wb_state, ret, qVars>>

MountServe ==
    /\ MountStep("ServeDirectory")
    /\ UNCHANGED <<fsVars, qVars>>

\* SpecMount: the client and the queue threads of SpecJournal; the machine
\* may stop at any point, and the volume is then mounted step by step.
InitMount ==
    /\ InitFs({o \in MountOptions : ~o.readonly}, {TRUE}, {1})
    /\ wb_done = 0
    /\ disk = FormattedDisk(info)
    /\ hash = 0
    /\ thr = 0
    /\ life = [pc |-> "mounted", log |-> <<>>, replayed |-> 0]

Mounted == life.pc = "mounted"

NextMount ==
    \/ /\ Mounted /\ ret = NoRet
       /\ Len(journal_q) + Len(wb_q) <= MaxQueued
       /\ JournalOps
       /\ UNCHANGED <<wb_done, disk, hash, thr, life>>
    \/ Mounted /\ Ack /\ UNCHANGED <<cacheVars, lifeVars>>
    \/ Mounted /\ JournalThread /\ UNCHANGED <<cacheVars, lifeVars>>
    \/ Mounted /\ WritebackThread /\ UNCHANGED <<cacheVars, lifeVars>>
    \/ MountInitialize /\ UNCHANGED cacheVars
    \/ MountWritebackCreate /\ UNCHANGED cacheVars
    \/ MountReplay /\ UNCHANGED cacheVars
    \/ MountReload /\ UNCHANGED cacheVars
    \/ MountJournal /\ UNCHANGED cacheVars
    \/ MountCheckFvm /\ UNCHANGED cacheVars
    \/ MountServe /\ UNCHANGED cacheVars

SpecMount == InitMount /\ [][NextMount]_vars

(***************************************************************************)
(* Sync and Shutdown.  life holds the dispatcher's position in Shutdown,   *)
(* the steps it has done, and for every closure given to Sync the work     *)
(* that was in flight when its work item was enqueued and the statuses it  *)
(* has been called with.                                                   *)
(***************************************************************************)
MaxSyncs == 1
MaxInFlight == 1
ShutdownClosure == MaxSyncs + 1
Closures == 1..ShutdownClosure

InitLife ==
    [pc |-> "serving", log |-> <<>>, calls |-> 0,
     ahead |-> [c \in Closures |-> <<>>],
     fired |-> [c \in Closures |-> <<>>],
     pins |-> {}, asserted |-> FALSE]

\* A work item whatever queue holds it and wherever it is on its way.
Item(w) == [w EXCEPT !.kind = "work"]
RECURSIVE Items(_)
Items(q) == IF q = <<>> THEN <<>> ELSE <<Item(Head(q))>> \o Items(Tail(q))
InFlight(s) == Items(s.wb_q) \o Items(s.journal_q)

RECURSIVE Without(_, _)
Without(q, w) ==
    IF q = <<>> THEN <<>>
    ELSE IF Head(q) = w THEN Tail(q) ELSE <<Head(q)>> \o Without(Tail(q), w)

\* Sync that returns without calling the closure when no work can be made.
SyncDropsClosure(s, c) ==
    IF CreateWork(s) # "OK"
    THEN [s |-> WithStatus(s, CreateWork(s)), closure |-> "none"]
    ELSE LET s1 == EnqueueWork(s, SetSyncCallback(NewWork(0, "sync"), c), "kJournal")
         IN  [s |-> s1, closure |-> s1.reset]

\* Sync that calls the closure as soon as the work item is enqueued.
SyncCallsBackEarly(s, c) ==
    IF CreateWork(s) # "OK"
    THEN [s |-> WithStatus(s, CreateWork(s)), closure |-> CreateWork(s)]
    ELSE LET s1 == EnqueueWork(s, SetSyncCallback(NewWork(0, "sync"), c), "kJournal")
         IN  [s |-> s1, closure |-> "OK"]

\* Blobfs::Sync: s is the state it leaves and closure the status it has called
\* the closure with before it returns, "none" when it has not.
Sync(s, c) ==
    IF CreateWork(s) # "OK"
    THEN [s |-> WithStatus(s, CreateWork(s)), closure |-> CreateWork(s)]
    ELSE LET s1 == EnqueueWork(s, SetSyncCallback(NewWork(0, "sync"), c), "kJournal")
         IN  [s |-> s1, closure |-> s1.reset]

\* The closure c has been given to Sync.
Synced(l, c, before, r) ==
    IF r.closure # "none"
    THEN [l EXCEPT !.fired[c] = Append(@, r.closure)]
    ELSE [l EXCEPT !.ahead[c] = InFlight(before)]

\* WritebackWork::Complete: the work item w is done, and a closure it carries
\* is called with OK.
Completed(l, w) ==
    LET l1 == [l EXCEPT !.ahead = [c \in Closures |-> Without(l.ahead[c], Item(w))]]
    IN  IF w.cb = 0 THEN l1 ELSE [l1 EXCEPT !.fired[w.cb] = Append(@, "OK")]

\* The next step of the writeback thread finishes the oldest work item.
Completing ==
    /\ wb_q # <<>>
    /\ Head(wb_q).kind # "entry"
    /\ wb_done + 1 >= Len(Head(wb_q).writes)

SyncJournalThread == JournalThread /\ UNCHANGED <<cacheVars, lifeVars>>
SyncWritebackThread ==
    /\ WritebackThread
    /\ life' = IF Completing THEN Completed(life, Head(wb_q)) ELSE life
    /\ UNCHANGED cacheVars
SyncAck == Ack /\ UNCHANGED <<cacheVars, lifeVars>>

\* VnodeBlob::Sync: a client syncs, giving a closure of its own.
SyncOp ==
    /\ life.calls < MaxSyncs
    /\ LET c == life.calls + 1
           r == Sync(Cur, c)
       IN  /\ Finish(r.s, "sync", 0)
           /\ life' = [Synced(life, c, Cur, r) EXCEPT !.calls = c]

SyncClientOps ==
    \E v \in {1} :
        \/ NewBlobOp(v, v)
        \/ SpaceAllocateOp(v, 1, "none")
        \/ WriteOp(v, MaxBlobSize + 1, TRUE, MaxBlobSize, "none")
        \/ CloneVmoOp(v, "none")
        \/ CloseOp(v)
        \/ UnlinkOp(v)

\* ManagedVfs::Shutdown closes every connection; each closes its vnode.
RECURSIVE CloseHandles(_, _)
CloseHandles(s, v) ==
    IF s.vn[v].fd_count = 0 \/ s.vn[v].cached # "open" THEN s
    ELSE CloseHandles(Recycle(TryPurge([s EXCEPT !.vn[v].fd_count = @ - 1], v), v), v)

RECURSIVE CloseConnections(_, _)
CloseConnections(s, vs) ==
    IF vs = {} THEN s
    ELSE LET v == CHOOSE x \in vs : TRUE
         IN  CloseConnections(CloseHandles(s, v), vs \ {v})

RECURSIVE RecycleAll(_, _)
RecycleAll(s, vs) ==
    IF vs = {} THEN s
    ELSE LET v == CHOOSE x \in vs : TRUE
         IN  RecycleAll(Recycle(s, v), vs \ {v})

Step(l, pc) == [l EXCEPT !.pc = pc, !.log = Append(@, pc)]

\* Blobfs::Shutdown, step 1
ShutdownConnections ==
    /\ life.pc = "serving"
    /\ Store(CloseConnections(Cur, Vnodes))
    /\ life' = Step(life, "closed")
    /\ UNCHANGED <<ret, wb_done, disk>>

\* Step 2a, under hash_lock_: VnodeBlob::CloneWatcherTeardown takes the
\* reference a watched clone holds from every vnode of the open table.
CollectPins ==
    /\ life.pc = "closed"
    /\ LET pins == {v \in Vnodes : vn[v].cached = "open" /\ vn[v].clone_ref}
       IN  /\ vn' = [v \in Vnodes |->
                        IF v \in pins
                        THEN [vn[v] EXCEPT !.clone_ref = FALSE, !.clone_watcher = "idle"]
                        ELSE vn[v]]
           /\ life' = [Step(life, "collected") EXCEPT !.pins = pins]
    /\ UNCHANGED <<info, block_map, node_map, fvm_free, mount, wb_state, ret, qVars>>

\* internal_references.reset(), after the lock's scope.
DropPins ==
    /\ life.pc = "collected"
    /\ Store(RecycleAll(Cur, life.pins))
    /\ life' = [Step(life, "dropped") EXCEPT !.pins = {}]
    /\ UNCHANGED <<ret, wb_done, disk>>

\* Step 2b: Sync with the closure that posts the rest of the teardown.
ShutdownSync ==
    /\ life.pc = "dropped"
    /\ LET r == Sync(Cur, ShutdownClosure)
       IN  /\ Store(r.s)
           /\ life' = Synced(Step(life, "syncing"), ShutdownClosure, Cur, r)
    /\ UNCHANGED <<ret, wb_done, disk>>

\* The posted task, step 3: the flush of the device.
ShutdownFlush ==
    /\ life.pc = "syncing"
    /\ life.fired[ShutdownClosure] # <<>>
    /\ life' = Step(life, "flushed")
    /\ UNCHANGED <<fsVars, qVars>>

\* delete this: Blobfs::~Blobfs drops the journal and the writeback queue,
\* asserts that the open table is empty and clears the closed table.
ShutdownDestroy ==
    /\ life.pc = "flushed"
    /\ wb_state' = "null"
    /\ vn' = [v \in Vnodes |-> NoVnode(v)]
    /\ life' = [Step(life, "destroyed") EXCEPT
                   !.asserted = \E v \in Vnodes : vn[v].cached = "open"]
    /\ UNCHANGED <<info, block_map, node_map, fvm_free, mount, ret, qVars>>

\* cb(ZX_OK)
ShutdownReply ==
    /\ life.pc = "destroyed"
    /\ life' = Step(life, "replied:OK")
    /\ UNCHANGED <<fsVars, qVars>>

\* on_unmount()
ShutdownUnmount ==
    /\ life.pc = "replied:OK"
    /\ life' = Step(life, "unmounted")
    /\ UNCHANGED <<fsVars, qVars>>

\* SpecSync: one client creates, writes, clones, closes, unlinks and syncs on
\* any mount while the queue threads write the work out; the queue may fail
\* when it is empty; then the file system is shut down.
InitSync ==
    /\ InitFs(MountOptions, {TRUE}, {1})
    /\ wb_done = 0
    /\ disk = FormattedDisk(info)
    /\ hash = 0
    /\ thr = 0
    /\ life = InitLife

NextSync ==
    \/ /\ life.pc = "serving" /\ ret = NoRet
       /\ Len(journal_q) + Len(wb_q) <= MaxInFlight
       /\ SyncClientOps
       /\ UNCHANGED <<wb_done, disk, hash, thr, life>>
    \/ /\ life.pc = "serving" /\ ret = NoRet
       /\ SyncOp
       /\ UNCHANGED <<wb_done, disk, hash, thr>>
    \/ Idle /\ QueueFail /\ UNCHANGED restVars
    \/ SyncAck
    \/ SyncJournalThread
    \/ SyncWritebackThread
    \/ ret = NoRet /\ ShutdownConnections /\ UNCHANGED cacheVars
    \/ CollectPins /\ UNCHANGED cacheVars
    \/ DropPins /\ UNCHANGED cacheVars
    \/ ShutdownSync /\ UNCHANGED cacheVars
    \/ ShutdownFlush /\ UNCHANGED cacheVars
    \/ ShutdownDestroy /\ UNCHANGED cacheVars
    \/ ShutdownReply /\ UNCHANGED cacheVars
    \/ ShutdownUnmount /\ UNCHANGED cacheVars

SpecSync == InitSync /\ [][NextSync]_vars

\* The queue threads and the client are scheduled however often the others act.
SpecSyncFair ==
    /\ SpecSync
    /\ SF_vars(SyncJournalThread)
    /\ SF_vars(SyncWritebackThread)
    /\ WF_vars(SyncAck)

(***************************************************************************)
(* Blobfs::CreateWork and Blobfs::EnqueueWork by themselves, on every mount *)
(* and with the queue up or failed.                                        *)
(***************************************************************************)
EnqueueTypes == {"kData", "kJournal"}
WorkKinds == {"sync", "commit", "data"}

CreateWorkOp == Finish(WithStatus(Cur, CreateWork(Cur)), "creatework", 0)

EnqueueWorkOp(type, op) ==
    Finish(EnqueueWork(Cur, NewWork(0, op), type), "enqueue", 0)

NextEnqueue ==
    \/ Idle /\ CreateWorkOp /\ UNCHANGED restVars
    \/ Idle /\ (\E type \in EnqueueTypes, op \in WorkKinds : EnqueueWorkOp(type, op))
            /\ UNCHANGED restVars
    \/ Idle /\ QueueFail /\ UNCHANGED restVars
    \/ Complete /\ UNCHANGED restVars

SpecEnqueue == InitAny /\ [][NextEnqueue]_vars

(***************************************************************************)
(* Properties.                                                             *)
(***************************************************************************)
(***************************************************************************)
(* SpecPaginate: EnqueuePaginated by itself, for every writeback capacity  *)
(* and run length, entered with an empty work item.                        *)
(***************************************************************************)
MaxCapacity == 4
MaxRun == 5
PaginateOptions ==
    {[readonly |-> FALSE, journal |-> j, capacity |-> c] :
        j \in BOOLEAN, c \in 1..MaxCapacity}

\* life keeps the arguments of the call and what it left in the caller's work.
PaginateOp(relative_block, absolute_block, nblocks) ==
    LET s == EnqueuePaginated([Cur EXCEPT !.wb = NewWork(0, "data"), !.has_wb = TRUE],
                              0, relative_block, absolute_block, nblocks)
    IN  /\ Finish(s, "paginate", 0)
        /\ life' = [relative_block |-> relative_block, absolute_block |-> absolute_block,
                    nblocks |-> nblocks, work |-> s.wb.writes]
        /\ UNCHANGED <<wb_done, disk, hash, thr>>

InitPaginate == InitFs(PaginateOptions, {TRUE}, {InitDatSlices}) /\ InitRest

NextPaginate ==
    \/ Idle /\ \E relative_block \in 0..1, absolute_block \in 0..1, nblocks \in 0..MaxRun :
                  PaginateOp(relative_block, absolute_block, nblocks)
    \/ Idle /\ QueueFail /\ UNCHANGED restVars
    \/ Complete /\ UNCHANGED restVars

SpecPaginate == InitPaginate /\ [][NextPaginate]_vars

(***************************************************************************)
(* SpecGrow: Blobfs::AddInodes and Blobfs::AddBlocks called by themselves, *)
(* on volumes of every size up to the one whose bitmap fills its slice,    *)
(* with and without the volume manager, on every mount, with the queue up  *)
(* or failed, while a client commits a blob.                               *)
(***************************************************************************)
GrowPool == 3
GrowDats == {1, InitDatSlices, kBlobfsBlockBits - 1, kBlobfsBlockBits}
GrowFails == {"none", "grow"}

AddInodesOp(fail) == Finish(AddInodes(Cur, fail), "addinodes", 0)
AddBlocksOp(nblocks, fail) ==
    Finish([AddBlocks(Cur, nblocks, fail) EXCEPT !.actual = nblocks], "addblocks", 0)

InitGrow ==
    /\ \E fvm \in BOOLEAN, dat \in GrowDats :
          /\ info = FormattedInfo(fvm, dat)
          /\ fvm_free \in IF fvm THEN 0..GrowPool ELSE {0}
          /\ block_map = [size |-> dat * kBlocksPerSlice, bits |-> {}]
    /\ node_map = [i \in 0..((InitInoSlices + GrowPool) * kInodesPerSlice - 1) |-> ZeroNode]
    /\ vn = [v \in Vnodes |-> NoVnode(v)]
    /\ mount \in MountOptions
    /\ wb_state = IF mount.readonly THEN "null" ELSE "up"
    /\ ret = NoRet
    /\ journal_q = <<>>
    /\ wb_q = <<>>
    /\ InitRest

GrowOps ==
    \/ \E fail \in GrowFails : AddInodesOp(fail)
    \/ \E nblocks \in 1..(2 * kBlocksPerSlice), fail \in GrowFails :
           AddBlocksOp(nblocks, fail)
    \/ NewBlobOp(1, 1)
    \/ SpaceAllocateOp(1, 1, "none")
    \/ WriteOp(1, 1, TRUE, 1, "none")

NextGrow ==
    \/ Idle /\ GrowOps /\ UNCHANGED restVars
    \/ Idle /\ QueueFail /\ UNCHANGED restVars
    \/ Complete /\ UNCHANGED restVars

SpecGrow == InitGrow /\ [][NextGrow]_vars

(***************************************************************************)
(* SpecFvm: CheckFvmConsistency against every answer of the volume         *)
(* manager.  Its regions are the block bitmap, the node table, the journal *)
(* and the data, in this order; vslice_start is a region's first slice.    *)
(***************************************************************************)
MaxFvmCount == 2
kFvmRegionSlices == 8
kAbmSlices == 1
kJournalSlices == 1
Regions == 1..4
vslice_start(i) == i * kFvmRegionSlices
ExpectedCount(i) == <<kAbmSlices, i.ino_slices, kJournalSlices, i.dat_slices>>
FvmFails == {"none", "query", "vslice_query", "shrink"}

\* The loop that gives back a region's first slices instead of its last.
RECURSIVE CheckRegionsFromStart(_, _, _, _)
CheckRegionsFromStart(i, expected_count, r, fail) ==
    IF i > 4 THEN [r EXCEPT !.status = "OK"]
    ELSE
    LET blobfs_count == expected_count[i]
        fvm_count == r.ranges[i].count
        shrink == [offset |-> vslice_start(i), length |-> fvm_count - blobfs_count]
    IN  IF ~r.ranges[i].allocated \/ fvm_count < blobfs_count
        THEN [r EXCEPT !.status = "IoDataIntegrity"]
        ELSE IF fvm_count > blobfs_count
        THEN IF fail = "shrink"
             THEN [r EXCEPT !.status = "IoDataIntegrity",
                            !.shrinks = Append(@, shrink)]
             ELSE CheckRegionsFromStart(i + 1, expected_count,
                                        [r EXCEPT !.ranges[i].count = blobfs_count,
                                                  !.shrinks = Append(@, shrink)], fail)
        ELSE CheckRegionsFromStart(i + 1, expected_count, r, fail)

\* The loop of CheckFvmConsistency over the regions from region i on;
\* ioctl_block_fvm_shrink fails, and shrinks nothing, when fail = "shrink".
RECURSIVE CheckRegions(_, _, _, _)
CheckRegions(i, expected_count, r, fail) ==
    IF i > 4 THEN [r EXCEPT !.status = "OK"]
    ELSE
    LET blobfs_count == expected_count[i]
        fvm_count == r.ranges[i].count
        shrink == [offset |-> vslice_start(i) + blobfs_count,
                   length |-> fvm_count - blobfs_count]
    IN  IF ~r.ranges[i].allocated \/ fvm_count < blobfs_count
        THEN [r EXCEPT !.status = "IoDataIntegrity"]
        ELSE IF fvm_count > blobfs_count
        THEN IF fail = "shrink"
             THEN [r EXCEPT !.status = "IoDataIntegrity",
                            !.shrinks = Append(@, shrink)]
             ELSE CheckRegions(i + 1, expected_count,
                               [r EXCEPT !.ranges[i].count = blobfs_count,
                                         !.shrinks = Append(@, shrink)], fail)
        ELSE CheckRegions(i + 1, expected_count, r, fail)

\* CheckFvmConsistency; info->slice_size is kSliceSize.
CheckFvmConsistency(i, fvm, fail) ==
    LET r == [status |-> "OK", ranges |-> fvm.ranges, shrinks |-> <<>>, queries |-> 0]
    IN  IF ~i.flags_fvm THEN r
        ELSE IF fail = "query" THEN [r EXCEPT !.status = "Unavailable", !.queries = 1]
        ELSE IF kSliceSize # fvm.slice_size
        THEN [r EXCEPT !.status = "BadState", !.queries = 1]
        ELSE IF fail = "vslice_query"
        THEN [r EXCEPT !.status = "Unavailable", !.queries = 2]
        ELSE IF fvm.count # 4 THEN [r EXCEPT !.status = "BadState", !.queries = 2]
        ELSE CheckRegions(1, ExpectedCount(i), [r EXCEPT !.queries = 2], fail)

\* life holds the volume manager and what the check returned.
InitFvm ==
    /\ InitFs({o \in MountOptions : ~o.readonly /\ o.journal}, BOOLEAN, 1..InitDatSlices)
    /\ wb_done = 0 /\ disk = 0 /\ hash = 0 /\ thr = 0
    /\ \E slice_size \in {kSliceSize, 2 * kSliceSize}, count \in {3, 4},
          ranges \in [Regions -> [allocated : BOOLEAN, count : 0..MaxFvmCount]],
          fail \in FvmFails :
          life = [pc |-> "CheckFvmConsistency", fail |-> fail,
                  fvm |-> [slice_size |-> slice_size, count |-> count, ranges |-> ranges],
                  res |-> 0]

CheckFvmOp ==
    /\ life.pc = "CheckFvmConsistency"
    /\ life' = [life EXCEPT !.pc = "checked",
                            !.res = CheckFvmConsistency(info, life.fvm, life.fail)]
    /\ UNCHANGED <<fsVars, qVars, cacheVars>>

NextFvm == CheckFvmOp

SpecFvm == InitFvm /\ [][NextFvm]_vars

(***************************************************************************)
(* SpecReaddir: Blobfs::Readdir called again and again with buffers of     *)
(* every size, on node tables of every content: free nodes, some of them   *)
(* stale, primary inodes and extent containers.  life holds the cookie,    *)
(* what the calls have emitted so far and what the last call emitted.      *)
(***************************************************************************)
MaxDirents == 2
kDirentHeaderSize == 1
HexDigits == <<"0", "1", "2", "3", "4", "5", "6", "7",
               "8", "9", "a", "b", "c", "d", "e", "f">>

\* Digest::ToString: two hex digits for each byte, the first byte first.
RECURSIVE DigestToString(_, _)
DigestToString(d, nbytes) ==
    IF nbytes = 0 THEN <<>>
    ELSE DigestToString(d \div 256, nbytes - 1)
            \o <<HexDigits[(d % 256) \div 16 + 1], HexDigits[(d % 16) + 1]>>

\* fs::DirentFiller::Next takes the entry's header and its name from the buffer.
DirentSize == kDirentHeaderSize + 2 * kDigestLength

\* Readdir whose cookie passes an entry that the buffer could not hold.
RECURSIVE ReaddirSkipsFull(_, _, _, _)
ReaddirSkipsFull(i, index, room, out) ==
    IF i >= info.inode_count THEN [index |-> index, out |-> out]
    ELSE IF node_map[i].alloc /\ ~node_map[i].container
    THEN IF room < DirentSize THEN [index |-> i + 1, out |-> out]
         ELSE ReaddirSkipsFull(i + 1, i + 1, room - DirentSize,
                               Append(out, DigestToString(node_map[i].digest, kDigestLength)))
    ELSE ReaddirSkipsFull(i + 1, index, room, out)

\* Blobfs::Readdir: the loop from node i on; index is the cookie, room what is
\* left of the buffer and out the names filled in.
RECURSIVE ReaddirLoop(_, _, _, _)
ReaddirLoop(i, index, room, out) ==
    IF i >= info.inode_count THEN [index |-> index, out |-> out]
    ELSE IF node_map[i].alloc /\ ~node_map[i].container
    THEN IF room < DirentSize THEN [index |-> index, out |-> out]
         ELSE ReaddirLoop(i + 1, i + 1, room - DirentSize,
                          Append(out, DigestToString(node_map[i].digest, kDigestLength)))
    ELSE ReaddirLoop(i + 1, index, room, out)

ReaddirOp(len) ==
    LET r == ReaddirLoop(life.index, life.index, len, <<>>)
    IN  /\ life' = [index |-> r.index, emitted |-> life.emitted \o r.out,
                    last |-> r.out, len |-> len, calls |-> Min(life.calls + 1, 2)]
        /\ UNCHANGED <<fsVars, qVars, cacheVars>>

\* A node table: node i is free and zero, free and stale, the primary inode
\* of the one-block blob i + 1, or an extent container of a blob before it;
\* each blob has its vnode in the closed table, as after InitializeVnodes.
NodeKinds == {"zero", "stale", "blob", "container"}
TableNode(i, kind) ==
    [ZeroNode EXCEPT !.alloc = kind \in {"blob", "container"},
                     !.container = (kind = "container"),
                     !.digest = IF kind \in {"stale", "blob"} THEN i + 1 ELSE kZeroHash,
                     !.blob_size = IF kind \in {"stale", "blob"} THEN 1 ELSE 0,
                     !.block_count = IF kind \in {"stale", "blob"} THEN 1 ELSE 0,
                     !.extents = IF kind \in {"stale", "blob"} THEN <<<<i, 1>>>> ELSE <<>>]

InitReaddir ==
    /\ \E ino \in InitInoSlices..(InitInoSlices + FvmPoolSlices),
          kinds \in [0..(MaxInodes - 1) -> NodeKinds] :
          LET inodes == ino * kInodesPerSlice
              blobs == {i \in DOMAIN kinds : kinds[i] = "blob"}
              used == {i \in DOMAIN kinds : kinds[i] \in {"blob", "container"}}
              nth(v) == CHOOSE i \in blobs : Cardinality({j \in blobs : j < i}) = v - 1
          IN  /\ Cardinality(blobs) <= NumVnodes
              /\ vn = [v \in Vnodes |->
                          IF v > Cardinality(blobs) THEN NoVnode(v)
                          ELSE [NewVnode(nth(v) + 1) EXCEPT
                                   !.state = "Readable", !.map_index = nth(v),
                                   !.blob_size = 1, !.block_count = 1,
                                   !.fd_count = 0, !.cached = "closed",
                                   !.ondisk = "good"]]
              /\ \A i \in DOMAIN kinds :
                    /\ i >= inodes => kinds[i] = "zero"
                    /\ kinds[i] = "container" => \E j \in blobs : j < i
              /\ info = [FormattedInfo(TRUE, InitDatSlices) EXCEPT
                            !.ino_slices = ino,
                            !.vslice_count = InitDatSlices + ino,
                            !.inode_count = inodes,
                            !.alloc_inode_count = Cardinality(used),
                            !.alloc_block_count = Cardinality(blobs)]
              /\ fvm_free = InitInoSlices + FvmPoolSlices - ino
              /\ block_map = [size |-> InitDatSlices * kBlocksPerSlice, bits |-> blobs]
              /\ node_map = [i \in DOMAIN kinds |-> TableNode(i, kinds[i])]
    /\ mount \in {o \in MountOptions : ~o.readonly /\ o.journal}
    /\ wb_state = "up"
    /\ ret = NoRet
    /\ journal_q = <<>> /\ wb_q = <<>>
    /\ wb_done = 0 /\ disk = 0 /\ hash = 0 /\ thr = 0
    /\ life = [index |-> 0, emitted |-> <<>>, last |-> <<>>, len |-> 0, calls |-> 0]

NextReaddir == \E len \in 0..(MaxDirents * DirentSize) : ReaddirOp(len)

SpecReaddir == InitReaddir /\ [][NextReaddir]_vars

(***************************************************************************)
(* SpecVnodes: Blobfs::Create and Blobfs::Reload load the vnodes of node   *)
(* tables of every content, two primary inodes of one digest included, and *)
(* with every allocation of a vnode failing.  life holds the position in   *)
(* Mount and what InitializeVnodes, Create or Reload, and Mount returned.  *)
(***************************************************************************)
\* The zx_status_t that a bool becomes when it is assigned to one: ZX_OK is 0.
BoolToStatus(b) == IF b THEN "1" ELSE "OK"

\* Blobfs::InitializeVnodes from node i on, after closed_hash_.clear(): made
\* vnodes are in the closed table; the oom-th allocation of a vnode fails.
RECURSIVE InitializeVnodes(_, _, _, _)
InitializeVnodes(i, vns, made, oom) ==
    IF i >= info.inode_count THEN [status |-> "OK", vn |-> vns]
    ELSE IF node_map[i].alloc /\ ~node_map[i].container
    THEN IF oom = made + 1 THEN [status |-> "NoMemory", vn |-> vns]
         ELSE IF \E v \in Vnodes : /\ vns[v].cached = "closed"
                                   /\ vns[v].digest = node_map[i].digest
         THEN [status |-> "AlreadyExists", vn |-> vns]
         ELSE InitializeVnodes(i + 1,
                  [vns EXCEPT ![made + 1] =
                      [NewVnode(node_map[i].digest) EXCEPT
                          !.state = "Readable", !.map_index = i,
                          !.blob_size = node_map[i].blob_size,
                          !.block_count = node_map[i].block_count,
                          !.compressed = node_map[i].compressed,
                          !.fd_count = 0, !.cached = "closed", !.ondisk = "good"]],
                  made + 1, oom)
    ELSE InitializeVnodes(i + 1, vns, made, oom)

\* Blobfs::Create from InitializeVnodes on, called by Initialize, called by
\* Mount: status = fs->InitializeVnodes() != ZX_OK.
VnodesCreate(oom) ==
    /\ life.pc = "Initialize"
    /\ LET r == InitializeVnodes(0, [v \in Vnodes |-> NoVnode(v)], 0, oom)
           status == BoolToStatus(r.status # "OK")
       IN  /\ vn' = r.vn
           /\ life' = [pc |-> IF status # "OK" THEN "failed" ELSE "Reload",
                       by |-> "Create", E |-> r.status, returned |-> status,
                       mount |-> status]
    /\ UNCHANGED <<info, block_map, node_map, fvm_free, mount, wb_state, ret, qVars,
                   cacheVars>>

\* Blobfs::Reload from InitializeVnodes on, called by InitializeWriteback,
\* called by Mount.
VnodesReload(oom) ==
    /\ life.pc = "Reload"
    /\ LET r == InitializeVnodes(0, [v \in Vnodes |-> NoVnode(v)], 0, oom)
           status == BoolToStatus(r.status # "OK")
       IN  /\ vn' = r.vn
           /\ life' = [pc |-> IF status # "OK" THEN "failed" ELSE "mounted",
                       by |-> "Reload", E |-> r.status, returned |-> status,
                       mount |-> status]
    /\ UNCHANGED <<info, block_map, node_map, fvm_free, mount, wb_state, ret, qVars,
                   cacheVars>>

\* The node tables of SpecReaddir, where a blob's digest may also be that of
\* the blob before it.
InitVnodes ==
    /\ \E ino \in InitInoSlices..(InitInoSlices + FvmPoolSlices),
          kinds \in [0..(MaxInodes - 1) -> NodeKinds],
          same \in SUBSET (1..(MaxInodes - 1)) :
          LET inodes == ino * kInodesPerSlice
              blobs == {i \in DOMAIN kinds : kinds[i] = "blob"}
              used == {i \in DOMAIN kinds : kinds[i] \in {"blob", "container"}}
          IN  /\ Cardinality(blobs) <= NumVnodes
              /\ same \subseteq blobs
              /\ \A i \in same : \E j \in blobs : j < i
              /\ \A i \in DOMAIN kinds :
                    /\ i >= inodes => kinds[i] = "zero"
                    /\ kinds[i] = "container" => \E j \in blobs : j < i
              /\ info = [FormattedInfo(TRUE, InitDatSlices) EXCEPT
                            !.ino_slices = ino,
                            !.vslice_count = InitDatSlices + ino,
                            !.inode_count = inodes,
                            !.alloc_inode_count = Cardinality(used),
                            !.alloc_block_count = Cardinality(blobs)]
              /\ fvm_free = InitInoSlices + FvmPoolSlices - ino
              /\ block_map = [size |-> InitDatSlices * kBlocksPerSlice, bits |-> blobs]
              /\ node_map = [i \in DOMAIN kinds |->
                    IF i \in same
                    THEN [TableNode(i, kinds[i]) EXCEPT
                             !.digest = 1 + CHOOSE j \in blobs :
                                 j < i /\ \A k \in blobs : k < i => k <= j]
                    ELSE TableNode(i, kinds[i])]
    /\ vn = [v \in Vnodes |-> NoVnode(v)]
    /\ mount \in {o \in MountOptions : ~o.readonly}
    /\ wb_state = "null"
    /\ ret = NoRet
    /\ journal_q = <<>> /\ wb_q = <<>>
    /\ wb_done = 0 /\ disk = 0 /\ hash = 0 /\ thr = 0
    /\ life = [pc |-> "Initialize", by |-> "none", E |-> "OK", returned |-> "OK",
               mount |-> "OK"]

NextVnodes ==
    \/ \E oom \in 0..NumVnodes : VnodesCreate(oom)
    \/ \E oom \in 0..NumVnodes : VnodesReload(oom)

SpecVnodes == InitVnodes /\ [][NextVnodes]_vars

AllocatedNodes == {i \in DOMAIN node_map : node_map[i].alloc}
\* A free node that still holds what its last blob left in it.
StaleNodes == {i \in DOMAIN node_map : ~node_map[i].alloc /\ node_map[i].digest # kZeroHash}

\* C1: after any sequence of commits, purges and growth, alloc_block_count is
\* the number of set bits of the block bitmap and alloc_inode_count the number
\* of allocated nodes (primary inodes and extent containers).
C1_AllocCountsMatchMaps ==
    /\ info.alloc_block_count = Cardinality(block_map.bits)
    /\ info.alloc_inode_count = Cardinality(AllocatedNodes)

\* C1 witness: the volume has grown, a blob with an extent container is
\* committed and another blob has been purged.
C1_Witness ==
    /\ info.ino_slices > InitInoSlices
    /\ \E i \in AllocatedNodes : node_map[i].container
    /\ StaleNodes # {}
    /\ info.alloc_block_count >= 3

\* The extents reachable from a primary inode through its container chain.
RECURSIVE ChainExtents(_, _)
ChainExtents(i, fuel) ==
    node_map[i].extents \o
        (IF node_map[i].next = 0 \/ fuel = 0 THEN <<>>
         ELSE ChainExtents(node_map[i].next, fuel - 1))
PrimaryInodes == {i \in AllocatedNodes : ~node_map[i].container}
BlobExtents(i) == ChainExtents(i, MaxInodes)

\* C2: for every allocated primary inode the extents of its chain sum to its
\* block_count, each of their blocks is allocated in the bitmap, and no block
\* belongs to the extents of two blobs.
C2_ExtentsMatchInode ==
    /\ \A i \in PrimaryInodes :
          /\ SumLen(BlobExtents(i)) = node_map[i].block_count
          /\ ExtentsBlocks(BlobExtents(i)) \subseteq block_map.bits
    /\ \A i, j \in PrimaryInodes :
          i # j => ExtentsBlocks(BlobExtents(i)) \cap ExtentsBlocks(BlobExtents(j)) = {}

\* C5: a write that completes a non-empty blob whose data does not hash to the
\* vnode's digest returns IntegrityError, leaves the vnode in Error, enqueues
\* no work, and leaves the bitmap, the node table and the superblock unchanged.
C5_DigestMismatch ==
    [][(ret'.op = "write" /\ ret'.status = "IntegrityError") =>
          /\ vn'[ret'.v].state = "Error"
          /\ vn[ret'.v].blob_size > 0
          /\ journal_q' = journal_q /\ wb_q' = wb_q
          /\ block_map' = block_map /\ node_map' = node_map /\ info' = info]_vars

\* C5 witness: a completing write of bad data has returned IntegrityError.
C5_Witness ==
    /\ ret.op = "write" /\ ret.status = "IntegrityError"
    /\ vn[1].blob_size > 0 /\ vn[1].bytes_written = vn[1].blob_size
    /\ vn[1].buf = "bad"

\* C9: a write that fails after its bytes were buffered (compressor, Merkle
\* tree, digest, work creation, enqueue, event signal), and a SpaceAllocate(0)
\* whose WriteMetadata fails, leave the vnode in Error and return the error.
C9_WriteFailureSetsError ==
    [][\A v \in Vnodes :
          (\/ /\ ret'.op = "write" /\ ret'.v = v /\ ret'.status # "OK"
              /\ vn[v].state = "DataWrite"
              /\ vn'[v].bytes_written > vn[v].bytes_written
           \/ /\ ret'.op = "truncate" /\ ret'.v = v
              /\ ret'.status \notin {"OK", "IntegrityError", "NoSpace"}
              /\ vn[v].state = "Empty" /\ vn'[v].blob_size = 0)
          => vn'[v].state = "Error"]_vars

BlobOps == {"truncate", "write", "read", "clone"}
ZeroWrite(v) == \E good \in BOOLEAN, csz \in CompressedSizes, fail \in WriteFails :
                    WriteOp(v, 0, good, csz, fail)

\* C10 as stated: a vnode in Error stays in Error, and every SpaceAllocate,
\* write of any length, read and clone on it returns BadState.
C10_ErrorRejectsAll ==
    [][\A v \in Vnodes :
          (vn[v].state = "Error" /\ ret'.op \in BlobOps /\ ret'.v = v)
          => vn'[v].state = "Error" /\ ret'.status = "BadState"]_vars

\* C10 amended: a vnode in Error stays in Error until its last handle is
\* closed and the object is purged; SpaceAllocate, read, clone and every write
\* of at least one byte return BadState, and a write of no bytes returns OK
\* and changes nothing.
C10_ErrorRejectsAllButEmptyWrite ==
    [][\A v \in Vnodes :
          vn[v].state = "Error" =>
            /\ \/ vn'[v].state = "Error"
               \/ vn'[v].state = "Purged" /\ vn'[v].fd_count = 0 /\ ret'.op = "close"
            /\ (ret'.op \in BlobOps /\ ret'.v = v) =>
                  IF ZeroWrite(v)
                  THEN ret'.status = "OK" /\ ret'.actual = 0 /\ vn' = vn
                  ELSE ret'.status = "BadState" /\ vn' = vn]_vars

\* C10 witness: a read on a vnode in Error was refused.
C10_Witness ==
    vn[1].state = "Error" /\ ret.op = "read" /\ ret.status = "BadState"

ServesData(v) == ret'.op \in {"read", "clone"} /\ ret'.v = v /\ ret'.status = "OK"
                     /\ ret'.actual > 0

\* C6 as stated: read and clone return data only from a buffer that was loaded
\* from disk and verified against the digest.
C6_DataOnlyAfterLoadAndVerify ==
    [][\A v \in Vnodes :
          ServesData(v) => vn'[v].mapping = "read" /\ vn'[v].verified]_vars

\* C6 amended: read and clone return data only from a buffer that hashes to the
\* digest: one loaded from disk and verified by InitVmos, or the buffer of the
\* write that committed the blob after its Merkle root matched.  A failed
\* call serves no bytes, and a failed verification or decompression leaves
\* the buffer unmaterialized.
C6_DataOnlyFromVerifiedBuffer ==
    [][\A v \in Vnodes :
          /\ ServesData(v) =>
                /\ vn'[v].buf = "good"
                /\ \/ vn'[v].mapping = "read" /\ vn'[v].verified
                   \/ vn'[v].mapping = "write" /\ vn[v].mapping = "write"
          /\ (ret'.op \in {"read", "clone"} /\ ret'.v = v /\ ret'.status # "OK")
                => ret'.actual = 0
          /\ (ret'.op \in {"read", "clone"} /\ ret'.v = v
                 /\ ret'.status = "IntegrityError")
                => vn'[v].mapping = "none" /\ vn'[v].buf = "none"
          /\ vn'[v].mapping = "read" => vn'[v].verified /\ vn'[v].buf = "good"]_vars

\* C6 witness: a read has returned bytes of a compressed blob whose buffer was
\* loaded from disk and verified.
C6_Witness ==
    /\ ret.op = "read" /\ ret.status = "OK" /\ ret.actual > 0
    /\ vn[1].mapping = "read" /\ vn[1].verified /\ vn[1].compressed

\* C11: a blob in Error holds no reservation: none of the blocks and nodes it
\* reserved in SpaceAllocate is still reserved in the allocator.
C11_ErrorHoldsNoReservation ==
    \A v \in Vnodes :
        vn[v].state = "Error" =>
            /\ ExtentsBlocks(vn[v].extents) \cap ReservedBlocks(vn) = {}
            /\ Range(vn[v].node_indices) \cap ReservedNodes(vn) = {}

\* Blobfs::Readdir: the digests of the allocated nodes that are no containers.
Readdir ==
    {node_map[i].digest :
        i \in {j \in 0..(info.inode_count - 1) :
                  node_map[j].alloc /\ ~node_map[j].container}}
QueuedWork(kind) ==
    Len(SelectSeq(journal_q, LAMBDA w : w.kind = kind))
        + Len(SelectSeq(wb_q, LAMBDA w : w.kind = kind))
NullAllocate(v) == vn[v].state = "Empty" /\ SpaceAllocateOp(v, 0, "none")

\* C14: SpaceAllocate(0) on an Empty vnode with the empty digest ends in
\* Readable, allocates exactly one node and no block, enqueues one metadata
\* work item and no data work item, and the blob is then listed by Readdir
\* and read as 0 bytes; with any other digest the call fails and the vnode does
\* not become Readable.
C14_NullBlob ==
    [][\A v \in Vnodes :
          /\ (NullAllocate(v) /\ vn[v].digest = kNullDigest /\ ret'.status = "OK") =>
                /\ vn'[v].state = "Readable"
                /\ \E i \in DOMAIN node_map :
                      /\ ~node_map[i].alloc
                      /\ AllocatedNodes' = AllocatedNodes \cup {i}
                /\ block_map' = block_map
                /\ QueuedWork("data")' = 0 /\ QueuedWork("journal")' = 1
                /\ kNullDigest \in Readdir'
          /\ (NullAllocate(v) /\ vn[v].digest # kNullDigest) =>
                ret'.status # "OK" /\ vn'[v].state # "Readable"
          /\ (ret'.op = "read" /\ ret'.v = v /\ vn[v].state = "Readable"
                 /\ vn[v].blob_size = 0)
                => ret'.status = "OK" /\ ret'.actual = 0]_vars

\* A write of more bytes than the blob still lacks.
OverlongWrite(v) ==
    /\ vn[v].state = "DataWrite"
    /\ \E len \in WriteLens, good \in BOOLEAN, csz \in CompressedSizes, fail \in WriteFails :
          /\ len > vn[v].blob_size - vn[v].bytes_written
          /\ WriteOp(v, len, good, csz, fail)

\* C15 as stated: a write in DataWrite of more bytes than blob_size minus the
\* bytes already written returns an error and stores no bytes.
C15_OverlongWriteRejected ==
    [][\A v \in Vnodes :
          OverlongWrite(v) =>
              /\ ret'.status # "OK" /\ ret'.actual = 0
              /\ vn'[v].bytes_written = vn[v].bytes_written]_vars

\* C15 amended: such a write is cut short: it stores exactly the bytes the blob
\* still lacks, reports that count, and completes the blob; the bytes accepted
\* never exceed blob_size.
C15_OverlongWriteTruncated ==
    [][\A v \in Vnodes :
          /\ vn'[v].bytes_written <= vn'[v].blob_size
          /\ OverlongWrite(v) =>
                /\ ret'.actual <= vn[v].blob_size - vn[v].bytes_written
                /\ ret'.status = "OK" =>
                      /\ ret'.actual = vn[v].blob_size - vn[v].bytes_written
                      /\ vn'[v].state = "Readable"]_vars

\* C15 witness: a write longer than the whole blob was accepted in part and
\* completed the blob.
C15_Witness ==
    /\ ret.op = "write" /\ ret.status = "OK" /\ ret.actual = MaxBlobSize
    /\ vn[1].state = "Readable" /\ vn[1].blob_size = MaxBlobSize

MerkleBytes(me) == MerkleTreeBlocks(me.blob_size) * kBlobfsBlockSize

\* C16: a successful ReadInternal on a Readable blob returns 0 bytes when
\* off >= blob_size, and otherwise min(len, blob_size - off) bytes taken from
\* the buffer at merkle_bytes + off: never bytes of the Merkle region or
\* bytes beyond blob_size.
C16_ReadRange ==
    [][\A v \in Vnodes, len \in ReadLens, off \in ReadOffsets :
          ((\E fail \in ReadFails : ReadOp(v, len, off, fail))
              /\ vn[v].state = "Readable" /\ ret'.status = "OK") =>
            IF off >= vn[v].blob_size THEN ret'.actual = 0
            ELSE /\ ret'.actual = Min(len, vn[v].blob_size - off)
                 /\ ret'.at = MerkleBytes(vn[v]) + off
                 /\ ret'.at + ret'.actual <= MerkleBytes(vn[v]) + vn[v].blob_size]_vars

\* C16 witness: a read that asked for more than was left of a blob with a
\* Merkle tree got the rest of the blob.
C16_Witness ==
    /\ ret.op = "read" /\ ret.status = "OK"
    /\ vn[1].blob_size = MaxBlobSize /\ ret.at = MerkleBytes(vn[1]) + 1
    /\ ret.actual = MaxBlobSize - 1

\* C17: no data work item the blob write path hands to the writeback queue
\* holds more blocks than 3/4 of the writeback capacity.
C17_WorkWithinThreeQuarters ==
    \A i \in DOMAIN wb_q :
        wb_q[i].kind = "data" => 4 * WorkBlocks(wb_q[i].writes) <= 3 * mount.capacity

\* C18: a blob committed compressed has block_count = merkle_blocks +
\* ceil(compressed_size / block_size), fewer blocks than SpaceAllocate
\* reserved, the compression flag in its node, and exactly its block_count
\* blocks, all of them reserved by the blob, newly allocated in the bitmap.
C18_CompressedCommit ==
    [][\A v \in Vnodes, csz \in CompressedSizes :
          (/\ vn[v].state = "DataWrite" /\ vn'[v].state = "Readable"
           /\ vn'[v].compressed
           /\ \E len \in WriteLens, good \in BOOLEAN, fail \in WriteFails :
                  WriteOp(v, len, good, csz, fail)) =>
            LET node == node_map'[vn'[v].map_index]
                merkle_blocks == MerkleTreeBlocks(vn[v].blob_size)
                new_bits == block_map'.bits \ block_map.bits
            IN  /\ node.block_count =
                       merkle_blocks + CeilDiv(Max(csz, vn[v].csize), kBlobfsBlockSize)
                /\ node.block_count < vn[v].block_count
                /\ vn[v].block_count = SumLen(vn[v].extents)
                /\ node.compressed /\ node.alloc
                /\ Cardinality(new_bits) = node.block_count
                /\ new_bits \subseteq ExtentsBlocks(vn[v].extents)
                /\ info'.alloc_block_count = info.alloc_block_count + node.block_count]_vars

\* C18 witness: a blob with a Merkle tree has been committed compressed.
C18_Witness ==
    /\ ret.op = "write" /\ ret.status = "OK"
    /\ vn[1].state = "Readable" /\ vn[1].compressed
    /\ node_map[vn[1].map_index].compressed
    /\ node_map[vn[1].map_index].block_count = MerkleTreeBlocks(MaxBlobSize) + 1

RECURSIVE ChainNodes(_, _)
ChainNodes(i, fuel) ==
    {i} \cup (IF node_map[i].next = 0 \/ fuel = 0 THEN {}
              ELSE ChainNodes(node_map[i].next, fuel - 1))

\* C19: QueueUnlink on a Readable blob that nobody holds open frees the nodes
\* of its chain and the blocks of its extents, lowers the alloc counts by
\* exactly as many, hands these changes to the journal as one work item and
\* drops the vnode from the cache; with a handle open it only marks the blob
\* deletable, and the blob stays Readable.
C19_QueueUnlink ==
    [][\A v \in Vnodes :
          (UnlinkOp(v) /\ vn[v].state = "Readable") =>
            IF vn[v].fd_count = 0
            THEN LET nodes == ChainNodes(vn[v].map_index, MaxInodes)
                 IN  /\ AllocatedNodes' = AllocatedNodes \ nodes
                     /\ nodes \subseteq AllocatedNodes
                     /\ info'.alloc_inode_count =
                            info.alloc_inode_count - Cardinality(nodes)
                     /\ Cardinality(block_map.bits \ block_map'.bits) = vn[v].block_count
                     /\ block_map'.bits \subseteq block_map.bits
                     /\ info'.alloc_block_count =
                            info.alloc_block_count - vn[v].block_count
                     /\ Len(journal_q') = 1 /\ wb_q' = <<>>
                     /\ vn'[v].cached = "none"
            ELSE /\ vn'[v].deletable /\ vn'[v].state = "Readable"
                 /\ vn'[v].cached = "open"
                 /\ UNCHANGED <<info, block_map, node_map, journal_q, wb_q>>]_vars

\* C20: while a clone handed out by CloneVmo is outstanding, the vnode holds
\* its self-reference clone_ref_ and the clone watcher has an object to watch.
C20_CloneKeepsVnode ==
    \A v \in Vnodes :
        vn[v].clones > 0 => vn[v].clone_ref /\ vn[v].clone_watcher # "idle"

\* The metadata work of v's commit that no queue thread has taken yet.
PendingCommit(v) ==
    \E q \in {journal_q, wb_q} : \E k \in DOMAIN q :
        q[k].op = "commit" /\ q[k].v = v /\ q[k].kind \in {"journal", "entry"}

\* C13: a vnode is Readable, and its readable event signalled, only once the
\* blob's metadata work has been enqueued and committed by the journal: no
\* vnode is Readable or signalled while its commit still waits in a queue.
C13_ReadableAfterCommit ==
    \A v \in Vnodes :
        (vn[v].state = "Readable" \/ vn[v].readable_event = "signalled")
            => ~PendingCommit(v)

\* The metadata a mount reads from a device, and the images a crash may
\* leave for it: what the metadata was when a work item that is in flight
\* was enqueued, or what the home locations hold, unless the writes of a
\* work item have begun to change them.
MetaImage(d) == [info |-> d.info, bits |-> d.bits, nodes |-> d.nodes]
HomeInWriting ==
    wb_q # <<>> /\ Head(wb_q).kind \in {"home", "journal"} /\ wb_done > 0
WholeImages ==
    {w.snap : w \in {x \in Range(journal_q \o wb_q) : x.kind # "data"}}
        \cup {disk.ring[k].item.snap : k \in DOMAIN disk.ring}
        \cup (IF HomeInWriting THEN {} ELSE {MetaImage(disk)})
Crashed == disk'.crashes = disk.crashes + 1

\* C3 (as stated): the bitmap, node-table and superblock writes of a commit
\* are one work item handed to the journal, so a remount after a crash at any
\* point exposes all of them or none of them: the metadata it reads is what
\* the device held before a work item or what the item left, never a mixture.
C3_CommitAllOrNone ==
    [][Crashed => MetaImage(disk') \in WholeImages]_vars

\* C3 (amended): on a volume mounted with the journal, a remount after a crash
\* at any point exposes all the writes of a commit or none of them.
C3_JournalledCommitAllOrNone ==
    [][(Crashed /\ mount.journal) =>
          MetaImage(disk') \in WholeImages]_vars

\* C3 witness: a journalled volume has been remounted after a crash, and the
\* blob whose commit was in the ring is there.
C3_Witness ==
    /\ ret.op = "remount" /\ mount.journal
    /\ DiskPrimaries(disk) # {}
    /\ vn[1].state = "Readable" /\ vn[1].cached = "closed"

\* C4: a write enqueues every data work item of the blob (Merkle tree and
\* payload, the chunks of pagination included) before the metadata work item,
\* and the metadata of a blob is at its home location, or in a whole ring
\* entry, only when the blob's data blocks have been written.
C4_DataBeforeMetadata ==
    /\ ret.op = "write" =>
          \A i, j \in DOMAIN ret.log :
              (ret.log[i][1] = "kData" /\ ret.log[j] = <<"kJournal", "commit">>) => i < j
    /\ \A i \in DiskPrimaries(disk) : DataOnDisk(disk, i)
    /\ \A i \in DiskPrimaries(Replay(disk)) : DataOnDisk(Replay(disk), i)

\* C4 witness: the inode of a blob with a Merkle tree, whose data went out in
\* several work items, is at its home location.
C4_Witness ==
    /\ disk.crashes = 0
    /\ \E i \in DiskPrimaries(disk) :
          disk.nodes[i].block_count > kMaxChunkBlocks(Cur) /\ DataOnDisk(disk, i)

\* A client's step on blob v that leaves it uncommitted: SpaceAllocate, a write
\* that does not complete the blob, or giving the blob up.
UncommittedStep(v) ==
    /\ ret = NoRet /\ ret'.v = v
    /\ \/ ret'.op \in {"truncate", "write"} /\ vn'[v].state = "DataWrite"
       \/ ret'.op \in {"close", "unlink"} /\ vn[v].state = "DataWrite"
AllocationUnchanged ==
    /\ block_map'.bits = block_map.bits
    /\ \A i \in DOMAIN node_map : node_map'[i].alloc = node_map[i].alloc
    /\ info'.alloc_block_count = info.alloc_block_count
    /\ info'.alloc_inode_count = info.alloc_inode_count
\* The work a step added to a queue.
Added(q, qn) ==
    IF Len(qn) >= Len(q) /\ SubSeq(qn, 1, Len(q)) = q
    THEN {qn[k] : k \in (Len(q) + 1)..Len(qn)} ELSE Range(qn)
\* The machine stops while v is being written and no purge is in flight.
WriterCrashed(v) ==
    /\ Crashed /\ vn[v].state = "DataWrite"
    /\ \A k \in DOMAIN (journal_q \o wb_q) :
          (journal_q \o wb_q)[k].op = "purge" => (journal_q \o wb_q)[k].kind = "home"
ReservationsGone(v) ==
    /\ vn[v].digest \notin Readdir'
    /\ ExtentsBlocks(vn[v].extents) \cap block_map'.bits = {}
    /\ \A i \in Range(vn[v].node_indices) : ~node_map'[i].alloc

Cached == hash.open \cup hash.closed
Holders(o) == {t \in Threads : thr[t].pc \in {"held", "drop"} /\ thr[t].obj = o}

\* C7: under any interleaving of NewBlob, LookupBlob and release, the open and
\* the closed table together hold at most one vnode of a digest, and two
\* NewBlob calls for it never both succeed.
C7_OneVnodePerDigest ==
    /\ Cardinality(Cached) <= 1
    /\ Cardinality({t \in Threads : thr[t].op = "new" /\ thr[t].res = "OK"
                                     /\ thr[t].obj \in Cached}) <= 1

\* C8: when LookupBlob calls race with each other and with the final release
\* of the vnode, every call that returns OK holds a strong reference to the
\* one vnode object of the digest, and no second vnode appears.
C8_LookupSameVnode ==
    /\ hash.made = 1 /\ Cardinality(Cached) <= 1
    /\ \A t \in Threads :
          thr[t].pc = "held" => thr[t].obj = 1 /\ 1 \in hash.live
    /\ hash.refs[1] >= Cardinality(Holders(1))

\* C8 witness: two lookups have returned OK and both hold the vnode, which a
\* lookup moved from the closed to the open table.
C8_Witness ==
    /\ hash.open = {1} /\ hash.closed = {}
    /\ \E t, u \in Threads :
          /\ t # u
          /\ thr[t].pc = "held" /\ thr[t].op = "lookup" /\ thr[t].res = "OK"
          /\ thr[u].pc = "held" /\ thr[u].op = "lookup" /\ thr[u].res = "OK"

\* The vnode in the open table has no reference left: its release is under way.
UpgradeFails == \E o \in hash.open : hash.refs[o] = 0

\* C26: LookupBlob returns NotFound exactly when neither table holds the
\* digest; a vnode that is only in closed moves to open and is returned with
\* the reference leaked into closed; a vnode in open whose upgrade succeeds is
\* returned with one more reference; a vnode whose count is 0 is neither
\* returned nor resurrected.
C26_LookupBlob ==
    [][\A t \in Threads : LookupStep(t) =>
          /\ UpgradeFails => hash' = hash /\ thr' = thr
          /\ ~UpgradeFails => ((Cached = {}) <=> (thr'[t].res = "NotFound"))
          /\ (Cached = {}) => hash' = hash /\ thr'[t].pc = "idle"
          /\ (hash.open = {} /\ hash.closed # {}) =>
                /\ thr'[t].pc = "held" /\ thr'[t].obj \in hash.closed
                /\ hash'.open = {thr'[t].obj}
                /\ hash'.closed = hash.closed \ {thr'[t].obj}
                /\ hash'.refs = hash.refs
          /\ (hash.open # {} /\ ~UpgradeFails) =>
                /\ thr'[t].pc = "held" /\ thr'[t].obj \in hash.open
                /\ hash'.refs[thr'[t].obj] = hash.refs[thr'[t].obj] + 1
                /\ hash'.open = hash.open /\ hash'.closed = hash.closed]_vars

\* C26 witness: a lookup has taken the vnode out of the closed table and holds
\* the one reference it had there.
C26_Witness ==
    /\ hash.open = {1} /\ hash.closed = {} /\ hash.refs[1] = 1
    /\ Cardinality({t \in Threads : thr[t].pc = "held" /\ thr[t].op = "lookup"}) = 1

\* C28: whenever hash_lock_ is free, a cached vnode is in exactly one of the
\* two tables, and the assertions of VnodeReleaseSoft and VnodeReleaseHard
\* (the erased entry existed, the insert into closed succeeded) hold.
C28_OneTableNoAssert ==
    /\ hash.open \cap hash.closed = {}
    /\ (hash.live \ hash.purged) \subseteq Cached
    /\ ~hash.asserted

Rejected ==
    /\ ret'.status = "BadState"
    /\ vn' = vn /\ block_map' = block_map /\ node_map' = node_map /\ info' = info
    /\ fvm_free' = fvm_free /\ journal_q' = journal_q /\ wb_q' = wb_q

\* C29: SpaceAllocate returns BadState unless the vnode is Empty, a write of
\* len > 0 unless it is DataWrite, a read and CloneVmo unless it is Readable,
\* CloneVmo also for a blob of size 0; the rejected operation leaves the
\* vnode, its buffers and reservations and the allocator as they were.
C29_StateGuards ==
    [][\A v \in Vnodes :
          /\ (ret = NoRet /\ ret'.op = "truncate" /\ ret'.v = v
                /\ vn[v].state # "Empty") => Rejected
          /\ (vn[v].state # "DataWrite" /\ Write(v, WriteLens \ {0}, WriteFails))
                => Rejected
          /\ (ret = NoRet /\ ret'.op = "read" /\ ret'.v = v
                /\ vn[v].state # "Readable") => Rejected
          /\ (ret = NoRet /\ ret'.op = "clone" /\ ret'.v = v
                /\ (vn[v].state # "Readable" \/ vn[v].blob_size = 0)) => Rejected]_vars

\* C29 witness: CloneVmo of the committed empty blob has returned BadState.
C29_Witness ==
    /\ ret.op = "clone" /\ ret.status = "BadState"
    /\ vn[1].state = "Readable" /\ vn[1].blob_size = 0 /\ vn[1].clones = 0

Enqueues(type) == ret' # NoRet /\ ret'.op = "enqueue" /\ ret'.log[1][1] = type
Refused == ret'.status = "BadState" /\ ret'.reset = "BadState"
                /\ journal_q' = journal_q /\ wb_q' = wb_q
ToJournal == journal_q' # journal_q /\ wb_q' = wb_q /\ ret'.status = "OK"
ToWriteback == wb_q' # wb_q /\ journal_q' = journal_q /\ ret'.status = "OK"

\* The routing on a mount that has a writeback queue: kData work goes to the
\* writeback queue and never to the journal; kJournal work goes to the journal
\* when there is one and to the writeback queue otherwise.
WritableRouting ==
    /\ Enqueues("kData") => journal_q' = journal_q
    /\ Enqueues("kData") /\ wb_state = "up" => ToWriteback
    /\ Enqueues("kJournal") /\ wb_state = "up" =>
           IF mount.journal THEN ToJournal ELSE ToWriteback
    /\ ret' # NoRet /\ ret'.op = "creatework" =>
           (ret'.status = "BadState" <=> mount.readonly)

Called(c) ==
    IF c = ShutdownClosure
    THEN life.pc \notin {"serving", "closed", "collected", "dropped"}
    ELSE c <= life.calls
SyncItems(q, c) == {i \in 1..Len(q) : q[i].cb = c}

ShutdownOrder ==
    <<"closed", "collected", "dropped", "syncing", "flushed", "destroyed",
      "replied:OK", "unmounted">>
Done(step) == \E i \in 1..Len(life.log) : life.log[i] = step

Pos(step) ==
    IF \E i \in 1..Len(life.log) : life.log[i] = step
    THEN CHOOSE i \in 1..Len(life.log) : life.log[i] = step
    ELSE 0
AfterReplay == {"Reload", "InitWriteback", "journal_.reset", "CheckFvmConsistency"}
MemoryIsDisk ==
    /\ info = disk.info
    /\ block_map.bits = disk.bits
    /\ node_map = disk.nodes

\* C22: on a writable mount, with the journal option or without, the replay
\* of the journal is complete before the metadata and the vnodes are reloaded,
\* before the journal's thread is started or the journal dropped, before the
\* FVM consistency check, and before any metadata write is enqueued.
C22_ReplayFirst ==
    /\ [](~mount.readonly /\ life.log # <<>> =>
            /\ \A step \in AfterReplay :
                   Pos(step) > 0 => Pos("Replay") > 0 /\ Pos("Replay") < Pos(step)
            /\ Pos("Replay") > 0 /\ ~Mounted => disk.ring = <<>>
            /\ Pos("Reload") > 0 /\ ~Mounted => MemoryIsDisk
            /\ Pos("CheckFvmConsistency") > 0 =>
                   Pos("InitWriteback") > 0 \/ Pos("journal_.reset") > 0
            /\ ~Mounted => journal_q = <<>> /\ wb_q = <<>>)
    /\ [][~Mounted /\ life.pc # "Replay" => disk' = disk]_vars

\* A mount without the journal option has replayed the whole entries that the
\* mount before it left in the journal, and serves.
C22_Witness ==
    /\ Mounted /\ ~mount.readonly /\ ~mount.journal
    /\ life.replayed > 0
    /\ DiskPrimaries(disk) # {}

\* The readers that are inside InitVmos past its first test.
Loading == {t \in Threads : thr[t].pc \in {"CreateAndMap", "load", "Verify"}}

\* C21: once InitVmos has succeeded, further calls load and verify nothing and
\* return OK; and concurrent calls on one vnode are serialized, so that the
\* buffer is made and loaded once and every reader gets the blob's bytes.
C21_InitVmosSerialized ==
    /\ Cardinality(Loading) <= 1
    /\ vn[1].mapping = "read" /\ vn[1].verified => Loading = {}
    /\ \A t \in Threads : thr[t].res \in {"none", "good"}

\* C31: a readable event that exists is signalled exactly when its vnode is
\* Readable, or was Readable and has been purged; it is never signalled while
\* the vnode is Empty, DataWrite or Error.
C31_EventIffReadable ==
    \A v \in Vnodes :
        vn[v].readable_event # "none" =>
            (vn[v].readable_event = "signalled" <=> vn[v].state \in {"Readable", "Purged"})


\* The blocks of blob payload and Merkle tree in the work items that an
\* operation has handed to the writeback queue.
RECURSIVE QueuedBlocks(_)
QueuedBlocks(q) == IF q = <<>> THEN 0 ELSE WorkBlocks(q[1].writes) + QueuedBlocks(Tail(q))

\* C32: compression runs only for blobs of at least kCompressionMinBytesSaved
\* bytes; a chunk or a finalization that leaves the compressed size above
\* blob_size - kCompressionMinBytesSaved ends compression, which never starts
\* again for the blob, and the blob is then committed uncompressed with the
\* block count it reserved and its data written out; otherwise it is committed
\* with the compression flag and the compressed bytes written out.
C32_CompressionDecision ==
    [][\A v \in Vnodes, csz \in CompressedSizes :
          (/\ vn[v].state = "DataWrite"
           /\ ret'.op = "write" /\ ret'.status = "OK" /\ ret'.actual > 0
           /\ \E len \in WriteLens, good \in BOOLEAN, fail \in WriteFails :
                  WriteOp(v, len, good, csz, fail)) =>
            LET size == Max(csz, vn[v].csize)
                over == size > vn[v].blob_size - kCompressionMinBytesSaved
                keeps == vn[v].compressing /\ ~over
                merkle_blocks == MerkleTreeBlocks(vn[v].blob_size)
            IN  /\ vn[v].compressing => vn[v].blob_size >= kCompressionMinBytesSaved
                /\ vn'[v].state = "DataWrite" => vn'[v].compressing = keeps
                /\ vn'[v].state = "Readable" =>
                       LET node == node_map'[vn'[v].map_index]
                       IN  /\ node.compressed = keeps
                           /\ node.block_count =
                                  IF keeps
                                  THEN merkle_blocks + CeilDiv(size, kBlobfsBlockSize)
                                  ELSE vn[v].block_count
                           /\ QueuedBlocks(SelectSeq(wb_q', LAMBDA w : w.kind = "data"))
                                  = node.block_count]_vars

\* C32 witness: a blob large enough for compression has been committed
\* uncompressed, with the block count that SpaceAllocate reserved.
C32_Witness ==
    /\ ret.op = "write" /\ ret.status = "OK"
    /\ vn[1].state = "Readable" /\ ~vn[1].compressed
    /\ vn[1].blob_size >= kCompressionMinBytesSaved
    /\ ~node_map[vn[1].map_index].compressed
    /\ node_map[vn[1].map_index].block_count = vn[1].block_count


\* The chunks of a call of EnqueuePaginated in the order it enqueued them: the
\* requests of the work items it submitted, then those left in the caller's.
RECURSIVE Submitted(_)
Submitted(q) == IF q = <<>> THEN <<>> ELSE q[1].writes \o Submitted(Tail(q))
Chunks == Submitted(wb_q) \o life.work

\* C33: for every run length and every writeback capacity of at least one
\* block EnqueuePaginated terminates; the chunks it enqueues start at the
\* arguments' offsets, each starts where the one before it ended in the buffer
\* and on the device, each has at most floor(3 * capacity / 4) blocks, they add
\* up to nblocks, every chunk before the last was submitted as data work by
\* itself and in order, and the last one is alone in the caller's work item.
C33_EnqueuePaginated ==
    ret.op = "paginate" =>
        /\ ret.status # "Hang"
        /\ ret.status = "OK" =>
              /\ WorkBlocks(Chunks) = life.nblocks
              /\ \A i \in DOMAIN Chunks :
                    /\ Chunks[i].len <= (3 * mount.capacity) \div 4
                    /\ Chunks[i].vmo = IF i = 1 THEN life.relative_block
                                       ELSE Chunks[i - 1].vmo + Chunks[i - 1].len
                    /\ Chunks[i].idx = IF i = 1 THEN life.absolute_block
                                       ELSE Chunks[i - 1].idx + Chunks[i - 1].len
              /\ \A i \in DOMAIN wb_q : wb_q[i].kind = "data" /\ Len(wb_q[i].writes) = 1
              /\ Len(life.work) = IF life.nblocks = 0 THEN 0 ELSE 1
              /\ journal_q = <<>>
              /\ ret.log = [i \in DOMAIN wb_q |-> <<"kData", "data">>]


\* The vnodes that the open or the closed table holds as Readable blobs.
ReadableCached == {v \in Vnodes : vn[v].state = "Readable" /\ vn[v].cached # "none"}
PrimaryNodes == {i \in AllocatedNodes : ~node_map[i].container}

\* C34: the allocated primary inodes of the node table and the Readable vnodes
\* of the open and closed tables correspond one-to-one, with the same digest
\* and node index; no node stays allocated for a blob whose commit failed or
\* that ended in Error, so that LookupBlob opens every digest Readdir lists.
C34_NodesMatchVnodes ==
    /\ \A i \in PrimaryNodes :
          \E v \in ReadableCached :
              vn[v].map_index = i /\ vn[v].digest = node_map[i].digest
    /\ \A v \in ReadableCached :
          /\ vn[v].map_index \in PrimaryNodes
          /\ node_map[vn[v].map_index].digest = vn[v].digest
    /\ \A v, w \in ReadableCached : vn[v].map_index = vn[w].map_index => v = w


\* C35: every id that AttachVmo gave for a buffer of a vnode is detached once
\* and no later than the vnode's teardown: the device holds one id for a vnode
\* that has its data buffer, the one vmoid_ names, and none for a vnode without
\* a buffer, whether InitCompressed has used its scratch buffer or an InitVmos
\* that attached the data buffer has failed and is tried again.
C35_VmoidsDetached ==
    \A v \in Vnodes : vn[v].vmoids = IF vn[v].mapping # "none" THEN 1 ELSE 0


\* The geometry of the in-memory superblock.
Geometry(i) == <<i.ino_slices, i.dat_slices, i.vslice_count, i.inode_count,
                 i.data_block_count>>
Grows == ret = NoRet /\ ret'.op \in {"addinodes", "addblocks"}

\* C36: when AddInodes or AddBlocks returns an error, a failure of the volume
\* manager is reported as NoSpace, the geometry of the in-memory superblock is
\* as it was and nothing is enqueued; without the FVM flag no extend request
\* reaches the volume manager.
C36_GrowFailureChangesNothing ==
    [][Grows =>
          /\ ~info.flags_fvm => ret'.status = "NoSpace" /\ fvm_free' = fvm_free
          /\ fvm_free = 0 => ret'.status = "NoSpace"
          /\ ret'.status # "OK" =>
                /\ Geometry(info') = Geometry(info)
                /\ journal_q' = journal_q /\ wb_q' = wb_q
          /\ ret'.status = "OK" => fvm_free' < fvm_free]_vars


\* The one work item a growth has enqueued.
GrowWork == Added(journal_q, journal_q') \cup Added(wb_q, wb_q')

\* C37: a successful AddInodes adds one slice to ino_slices and vslice_count,
\* leaves inode_count = ino_slices * (slice_size / inode_size), the new blocks
\* of the node table zero, and the superblock and these blocks in one work
\* item handed to the journal; a successful AddBlocks(n) adds ceil(n /
\* blocks_per_slice) slices to dat_slices and vslice_count and leaves
\* data_block_count = dat_slices * blocks_per_slice; inode_count and
\* data_block_count never decrease, and growth changes no bit of the bitmap
\* and no node that existed.
C37_GrowthGeometry ==
    [][/\ info'.inode_count >= info.inode_count
       /\ info'.data_block_count >= info.data_block_count
       /\ Grows =>
             /\ block_map'.bits = block_map.bits
             /\ \A i \in DOMAIN node_map :
                   i < info.inode_count => node_map'[i] = node_map[i]
       /\ Grows /\ ret'.status = "OK" /\ ret'.op = "addinodes" =>
             /\ info'.ino_slices = info.ino_slices + 1
             /\ info'.vslice_count = info.vslice_count + 1
             /\ info'.dat_slices = info.dat_slices
             /\ info'.inode_count = info'.ino_slices * kInodesPerSlice
             /\ \A i \in DOMAIN node_map :
                   i >= info.inode_count /\ i < info'.inode_count =>
                       node_map'[i] = ZeroNode
             /\ ret'.log = <<<<"kJournal", "grow">>>>
             /\ \E w \in GrowWork :
                   /\ GrowWork = {w}
                   /\ w.writes =
                        <<InfoWrite,
                          [t |-> "node",
                           idx |-> CeilDiv(info.inode_count, kBlobfsInodesPerBlock),
                           len |-> CeilDiv(info'.inode_count, kBlobfsInodesPerBlock)
                                     - CeilDiv(info.inode_count, kBlobfsInodesPerBlock)]>>
                   /\ w.snap.info = info'
       /\ Grows /\ ret'.status = "OK" /\ ret'.op = "addblocks" =>
             LET length == CeilDiv(ret'.actual, kBlocksPerSlice)
             IN  /\ info'.dat_slices = info.dat_slices + length
                 /\ info'.vslice_count = info.vslice_count + length
                 /\ info'.ino_slices = info.ino_slices
                 /\ info'.data_block_count = info'.dat_slices * kBlocksPerSlice
                 /\ block_map'.size = info'.data_block_count]_vars

\* C37 witness: on a volume that holds a committed blob and whose node table
\* has grown, AddBlocks has added two slices for a request of one slice and a
\* block.
C37_Witness ==
    /\ ret.op = "addblocks" /\ ret.status = "OK"
    /\ ret.actual = kBlocksPerSlice + 1
    /\ info.dat_slices = InitDatSlices + 2
    /\ info.ino_slices = InitInoSlices + 1
    /\ block_map.bits # {} /\ AllocatedNodes # {}


\* The regions of which the volume manager holds more slices than the
\* superblock records, in their order, and the shrink that frees the excess.
Checked == life.pc = "checked"
Excess(i) == life.fvm.ranges[i].count - ExpectedCount(info)[i]
Short(i) == ~life.fvm.ranges[i].allocated \/ Excess(i) < 0
ExactShrink(i) == [offset |-> vslice_start(i) + ExpectedCount(info)[i], length |-> Excess(i)]
Answered == /\ life.fail \notin {"query", "vslice_query"}
            /\ life.fvm.slice_size = kSliceSize /\ life.fvm.count = 4
RECURSIVE ShrinksFrom(_)
ShrinksFrom(i) ==
    IF i > 4 \/ Short(i) THEN <<>>
    ELSE (IF Excess(i) > 0 THEN <<ExactShrink(i)>> ELSE <<>>)
         \o (IF Excess(i) > 0 /\ life.fail = "shrink" THEN <<>> ELSE ShrinksFrom(i + 1))

\* C38: without the FVM flag CheckFvmConsistency returns OK and asks the
\* volume manager nothing; with it, it fails when the slice size differs, when
\* fewer than four regions are answered for, and when a region is unallocated
\* or has fewer slices than the superblock records; for each region with more
\* slices, up to the first region it fails on, it requests a shrink of the
\* excess from region_start + recorded count on; and when it returns OK every
\* region has in the volume manager the slices the superblock records.
C38_CheckFvmConsistency ==
    Checked =>
        LET r == life.res
        IN  IF ~info.flags_fvm
            THEN r.status = "OK" /\ r.queries = 0 /\ r.shrinks = <<>>
            ELSE /\ life.fvm.slice_size # kSliceSize => r.status # "OK"
                 /\ life.fvm.count < 4 => r.status # "OK"
                 /\ (\E i \in Regions : Short(i)) => r.status # "OK"
                 /\ r.shrinks = IF Answered THEN ShrinksFrom(1) ELSE <<>>
                 /\ r.status = "OK" =>
                       /\ \A i \in Regions :
                             /\ r.ranges[i].allocated
                             /\ r.ranges[i].count = ExpectedCount(info)[i]
                       /\ Len(r.shrinks) = Cardinality({i \in Regions : Excess(i) > 0})

\* C38 witness: the check has returned OK after it gave back the excess of
\* the node table and of the data region.
C38_Witness ==
    /\ Checked /\ info.flags_fvm /\ life.res.status = "OK"
    /\ Len(life.res.shrinks) = 2
    /\ Excess(2) > 0 /\ Excess(4) > 0


\* The names of the primary inodes from node i on, in node order.
RECURSIVE Listing(_)
Listing(i) ==
    IF i >= info.inode_count THEN <<>>
    ELSE (IF node_map[i].alloc /\ ~node_map[i].container
          THEN <<DigestToString(node_map[i].digest, kDigestLength)>> ELSE <<>>)
         \o Listing(i + 1)
\* The node of the k-th entry of the listing.
EntryNode(k) ==
    CHOOSE i \in DOMAIN node_map :
        /\ node_map[i].alloc /\ ~node_map[i].container
        /\ Cardinality({j \in 0..(i - 1) : node_map[j].alloc /\ ~node_map[j].container})
              = k - 1

\* C39: from a zero cookie and on an unchanged node table, the calls of
\* Readdir together emit the hex digests of the allocated nodes that are not
\* extent containers, each once and in node order, and nothing for free or
\* container nodes; the cookie stands right after the last node emitted, a
\* call stops at the first entry its buffer cannot hold and emits as many
\* entries as its buffer holds or as are left, and after the last entry the
\* calls emit nothing.
C39_ReaddirEnumerates ==
    LET all == Listing(0)
        n == Len(life.emitted)
        before == n - Len(life.last)
    IN  /\ n <= Len(all)
        /\ life.emitted = SubSeq(all, 1, n)
        /\ life.index = IF n = 0 THEN 0 ELSE EntryNode(n) + 1
        /\ Len(life.last) = Min(life.len \div DirentSize, Len(all) - before)
        /\ \A k \in DOMAIN all : Len(all[k]) = 2 * kDigestLength

\* C39 witness: the calls have listed a table that holds two blobs, a stale
\* free node and a container, and the last call, with room for an entry,
\* emitted nothing.
C39_Witness ==
    /\ life.calls = 2 /\ life.last = <<>> /\ life.len >= DirentSize
    /\ Len(life.emitted) = 2 /\ life.emitted = Listing(0)
    /\ \E i \in DOMAIN node_map : node_map[i].container
    /\ \E i \in DOMAIN node_map : ~node_map[i].alloc /\ node_map[i].digest # kZeroHash


\* C40: when InitializeVnodes fails with an error E, out of memory or
\* AlreadyExists for two allocated primary inodes of one digest, Blobfs::Create
\* and Blobfs::Reload return E, and Initialize and Mount fail with E.
C40_InitializeVnodesError ==
    life.pc = "failed" =>
        /\ life.E \in {"NoMemory", "AlreadyExists"}
        /\ life.returned = life.E
        /\ life.mount = life.E

====
